---- MODULE Spec2Model ----
(***************************************************************************)
(* Model of github.com/dzmitry-papkou/scraper.                             *)
(*                                                                         *)
(* Part 1: MultiScheduler (internal/scraper, multi-source scheduler).      *)
(* The registry s.scrapers, the ScraperJob objects it points to, the       *)
(* registry lock s.mu, the callers of the five public methods and the two  *)
(* goroutines every successful StartScraper spawns.                        *)
(*                                                                         *)
(* Part 2: SmartScraper (internal/scraper, crawl strategy engine).         *)
(* One ScrapeWithStrategy run at a time against the posts store: the page  *)
(* loop of each of the four modes, the reconciliation of each record and   *)
(* the result that is returned and persisted.                              *)
(***************************************************************************)
EXTENDS Integers, Sequences, FiniteSets, TLC

MaxJobs == 2
MaxId == 2
MaxPageLen == 2
MaxLongPage == 3
MaxPages == 2
MaxFailures == 1
MaxReruns == 2
MaxUrlLen == 3
MaxItems == 2
MaxStarts == 2

\* Source names config.GetScraper knows, and one it does not know.
Configured == {"A", "B"}
Names == Configured \cup {"X"}

\* Threads that call the public methods of the MultiScheduler: the command
\* shell (internal/cli/commands.go) is the only one.
Callers == {"c1"}

NoJob == 0
Idle == [op |-> "idle", name |-> "-"]
NoRet == [err |-> "none", bool |-> FALSE, list |-> <<>>]

\* Identifiers of posts and the scores a page can show for one.
Ids == 1..MaxId
Points == {1, 2}
Absent == 0

\* const block of ScrapingMode, and a mode value outside of it.
Modes == {"latest", "until_existing", "full", "since_last"}
AnyMode == Modes \cup {"other"}

\* duplicateThreshold := 5 and the test consecutiveEmptyPages >= 2
DuplicateThreshold == 5
EmptyPagesLimit == 2

\* ScrapingResult; ended stands for EndTime and Duration being set, Errors
\* holds the page numbers of the messages.
ZeroResult ==
    [Mode |-> "-", PagesScraped |-> 0, PostsScraped |-> 0, NewPosts |-> 0,
     UpdatedPosts |-> 0, DeletedPosts |-> 0, LastKnownID |-> 0,
     HighestIDSeen |-> 0, Errors |-> <<>>, ended |-> FALSE]

\* The SmartScraper and the locals of the mode function it is executing.
NoRun ==
    [pc |-> "idle", mode |-> "-", maxPages |-> 0, stopOnDuplicate |-> FALSE,
     page |-> 0, posts |-> <<>>, i |-> 0, saved |-> 0, newPosts |-> 0,
     duplicateCount |-> 0, consecutiveEmptyPages |-> 0,
     foundLastKnown |-> FALSE, allNewPosts |-> <<>>, lastKnownID |-> 0,
     err |-> "nil"]

\* What has been observed of the current run; K0 (the highest identifier in
\* the store before the first run) and priorErrs (the failed fetches of the
\* runs before this one) are carried from run to run; upserts counts the
\* InsertPost calls of a ScrapeOnce that returned no error.
NoObs ==
    [K |-> 0, fetched |-> 0, fetchErrs |-> 0, delayed |-> FALSE, emptyRun |-> 0, lastFull |-> 0,
     pageNew |-> 0,
     seenAny |-> FALSE, seenMax |-> 0, consec |-> 0,
     knownSeen |-> FALSE, pending |-> <<>>, rejected |-> 0,
     failures |-> 0, persists |-> 0, persisted |-> ZeroResult,
     K0 |-> 0, priorErrs |-> 0, upserts |-> 0]

\* Tables posts (hn_id -> points), post_history (number of rows added) and
\* scraping_jobs (number of rows added by CreateDetailedScrapingJob).
\* entry is the scraping_jobs row of the ScrapeOnce in progress: its status,
\* posts_scraped, and how often completed_at was set.
NoEntry == [status |-> "none", posts_scraped |-> 0, completed |-> 0]
EmptyStore ==
    [posts |-> [id \in Ids |-> Absent], history |-> 0, jobs |-> 0,
     entry |-> NoEntry]

\* The world of a run in general: a fetch can fail or return any page, and a
\* store operation can fail. In a steady world every fetch of page p returns
\* pages[p] with the score points[id] for id, and no store operation fails;
\* its fetches fail only when it is flaky.
ChangingWeb ==
    [steady |-> FALSE, flaky |-> FALSE, pages |-> <<>>, len |-> MaxPageLen,
     points |-> [id \in Ids |-> 2]]

\* No function is being applied: val is <<v>> once one returned v.
NoCall == <<>>

\* No run is reconciling a page.
NoWorkers == <<>>

\* Threads that call the methods of a Scheduler.
Users == {"u1", "u2"}

\* NewScheduler: ticker is nil, isActive false, the mutex free, no goroutine.
\* stopChan is unbuffered: it holds nothing, a send on it waits in the
\* sender (pc "send") for a receiver. returned records that the last call
\* that returned was a Stop.
NewScheduler ==
    [ticker |-> [nil |-> TRUE, running |-> FALSE, C |-> 0],
     isActive |-> FALSE,
     mu |-> "none",
     pc |-> [u \in Users |-> "idle"],
     first |-> <<>>,
     loop |-> <<>>,
     ret |-> "none",
     stopped |-> FALSE]

VARIABLES
    store,      \* the database tables the engine reads and writes
    web,        \* the feed and the failures the run can meet
    run,        \* the SmartScraper that is running, with its locals
    result,     \* the ScrapingResult of the run
    obs,        \* history: what the run has fetched and done so far
    runs,       \* history: number of ScrapeWithStrategy calls made
    arg,        \* the argument a function of the scraper is applied to
    val,        \* the value that function returned for arg
    scrapers,   \* s.scrapers: name -> job (NoJob when the key is absent)
    jobs,       \* the ScraperJob objects, in order of creation
    first,      \* per job: the goroutine of the immediate first run
    loop,       \* per job: the tick-loop goroutine
    mu,         \* s.mu, a sync.RWMutex
    pc,         \* per caller: the method it is executing under the lock
    ret,        \* what the last call returned, until the next call is made
    started,    \* history: the names whose last control call was a successful
                \* StartScraper, with no StopScraper of the name or StopAll since
    workers,    \* the runs that reconcile one page against the store at once
    single      \* a Scheduler (one source), its callers and its goroutines

schedVars == <<scrapers, jobs, first, loop, mu, pc, ret, started>>
pureVars == <<arg, val>>
auxVars == <<workers, single>>
engVars == <<store, web, run, result, obs, runs, pureVars, auxVars>>
vars == <<schedVars, engVars>>

JobIds == 1..Len(jobs)

\* config.GetScraper(name): nil error exactly for the configured names.
GetScraper(name) == IF name \in Configured THEN "nil" ELSE "not found"

\* NewGenericScraper: the error of config.GetScraper is passed on.
NewGenericScraper(name) == GetScraper(name)

\* exists && job.IsActive
Running(name) == scrapers[name] # NoJob /\ jobs[scrapers[name]].IsActive

Init ==
    /\ scrapers = [n \in Names |-> NoJob]
    /\ jobs = <<>>
    /\ first = <<>>
    /\ loop = <<>>
    /\ mu = [writer |-> "none", readers |-> {}]
    /\ pc = [c \in Callers |-> Idle]
    /\ ret = NoRet
    /\ started = {}
    /\ store = EmptyStore
    /\ web = ChangingWeb
    /\ run = NoRun
    /\ result = ZeroResult
    /\ obs = NoObs
    /\ runs = 0
    /\ arg = NoCall /\ val = NoCall
    /\ workers = NoWorkers /\ single = NewScheduler

-----------------------------------------------------------------------------
(* s.mu.Lock() / s.mu.RLock() at the head of every public method.          *)

WriteOps == {"StartScraper", "StopScraper", "StopAll"}
ReadOps == {"IsActive", "GetActiveScrapers"}

\* The arguments a call of op is made with.
Args(op) == IF op \in {"StopAll", "GetActiveScrapers"} THEN {"-"} ELSE Names

\* A StartScraper call that would create a job is only issued while the
\* model still has room for another job.
Issuable(op, name) ==
    op = "StartScraper" =>
        \/ Len(jobs) < MaxJobs
        \/ Running(name)
        \/ NewGenericScraper(name) # "nil"

Lock(c, op, name) ==
    /\ pc[c] = Idle
    /\ op \in WriteOps
    /\ Issuable(op, name)
    /\ mu.writer = "none" /\ mu.readers = {}
    /\ mu' = [mu EXCEPT !.writer = c]
    /\ pc' = [pc EXCEPT ![c] = [op |-> op, name |-> name]]
    /\ ret' = NoRet
    /\ UNCHANGED <<scrapers, jobs, first, loop, started>>
    /\ UNCHANGED engVars

RLock(c, op, name) ==
    /\ pc[c] = Idle
    /\ op \in ReadOps
    /\ mu.writer = "none"
    /\ mu' = [mu EXCEPT !.readers = @ \cup {c}]
    /\ pc' = [pc EXCEPT ![c] = [op |-> op, name |-> name]]
    /\ ret' = NoRet
    /\ UNCHANGED <<scrapers, jobs, first, loop, started>>
    /\ UNCHANGED engVars

\* defer s.mu.Unlock() / defer s.mu.RUnlock()
Unlock(c) == [writer |-> IF mu.writer = c THEN "none" ELSE mu.writer,
              readers |-> mu.readers \ {c}]

-----------------------------------------------------------------------------
(* The bodies of the public methods, run while the lock is held.           *)

NewJob(name) ==
    [Scraper |-> name,
     Ticker |-> [running |-> TRUE, C |-> 0],
     StopChan |-> 0,
     IsActive |-> TRUE]

\* StartScraper without the "already running" test of line 36.
StartScraper_NoRunningCheck(c) ==
    /\ pc[c].op = "StartScraper"
    /\ LET name == pc[c].name IN
       IF NewGenericScraper(name) # "nil"
       THEN /\ ret' = [NoRet EXCEPT !.err = "failed to create scraper"]
            /\ UNCHANGED <<scrapers, jobs, first, loop>>
       ELSE /\ jobs' = Append(jobs, NewJob(name))
            /\ scrapers' = [scrapers EXCEPT ![name] = Len(jobs) + 1]
            /\ first' = Append(first, "spawned")
            /\ loop' = Append(loop, "select")
            /\ ret' = [NoRet EXCEPT !.err = "nil"]
    /\ started' = IF ret'.err = "nil" THEN started \cup {pc[c].name} ELSE started
    /\ mu' = Unlock(c)
    /\ pc' = [pc EXCEPT ![c] = Idle]
    /\ UNCHANGED engVars

\* StartScraper that drops the error of NewGenericScraper (lines 41-43).
StartScraper_IgnoresConfigError(c) ==
    /\ pc[c].op = "StartScraper"
    /\ LET name == pc[c].name IN
       IF Running(name)
       THEN /\ ret' = [NoRet EXCEPT !.err = "already running"]
            /\ UNCHANGED <<scrapers, jobs, first, loop>>
       ELSE /\ jobs' = Append(jobs, NewJob(name))
            /\ scrapers' = [scrapers EXCEPT ![name] = Len(jobs) + 1]
            /\ first' = Append(first, "spawned")
            /\ loop' = Append(loop, "select")
            /\ ret' = [NoRet EXCEPT !.err = "nil"]
    /\ started' = IF ret'.err = "nil" THEN started \cup {pc[c].name} ELSE started
    /\ mu' = Unlock(c)
    /\ pc' = [pc EXCEPT ![c] = Idle]
    /\ UNCHANGED engVars

\* StartScraper that, for a name with an old entry, sets the old job active
\* again with the StopChan it has, instead of building a job (lines 52-57).
StartScraper_ReusesJob(c) ==
    /\ pc[c].op = "StartScraper"
    /\ LET name == pc[c].name IN
       IF Running(name)
       THEN /\ ret' = [NoRet EXCEPT !.err = "already running"]
            /\ UNCHANGED <<scrapers, jobs, first, loop>>
       ELSE IF NewGenericScraper(name) # "nil"
       THEN /\ ret' = [NoRet EXCEPT !.err = "failed to create scraper"]
            /\ UNCHANGED <<scrapers, jobs, first, loop>>
       ELSE IF scrapers[name] # NoJob
       THEN /\ jobs' = [jobs EXCEPT ![scrapers[name]].IsActive = TRUE,
                                    ![scrapers[name]].Ticker.running = TRUE]
            /\ ret' = [NoRet EXCEPT !.err = "nil"]
            /\ UNCHANGED <<scrapers, first, loop>>
       ELSE /\ jobs' = Append(jobs, NewJob(name))
            /\ scrapers' = [scrapers EXCEPT ![name] = Len(jobs) + 1]
            /\ first' = Append(first, "spawned")
            /\ loop' = Append(loop, "select")
            /\ ret' = [NoRet EXCEPT !.err = "nil"]
    /\ started' = IF ret'.err = "nil" THEN started \cup {pc[c].name} ELSE started
    /\ mu' = Unlock(c)
    /\ pc' = [pc EXCEPT ![c] = Idle]
    /\ UNCHANGED engVars

StartScraper(c) ==
    /\ pc[c].op = "StartScraper"
    /\ LET name == pc[c].name IN
       IF Running(name)
       THEN /\ ret' = [NoRet EXCEPT !.err = "already running"]
            /\ UNCHANGED <<scrapers, jobs, first, loop>>
       ELSE IF NewGenericScraper(name) # "nil"
       THEN /\ ret' = [NoRet EXCEPT !.err = "failed to create scraper"]
            /\ UNCHANGED <<scrapers, jobs, first, loop>>
       ELSE /\ jobs' = Append(jobs, NewJob(name))
            /\ scrapers' = [scrapers EXCEPT ![name] = Len(jobs) + 1]
            /\ first' = Append(first, "spawned")
            /\ loop' = Append(loop, "select")
            /\ ret' = [NoRet EXCEPT !.err = "nil"]
    /\ started' = IF ret'.err = "nil" THEN started \cup {pc[c].name} ELSE started
    /\ mu' = Unlock(c)
    /\ pc' = [pc EXCEPT ![c] = Idle]
    /\ UNCHANGED engVars

\* A stop that leaves job.StopChan open (no close, line 93).
Stopped_LeavesChanOpen(job, keep) ==
    [job EXCEPT !.Ticker.running = FALSE,
                !.Ticker.C = IF keep THEN @ ELSE 0,
                !.IsActive = FALSE]

\* A stop that forgets job.IsActive = false (line 94).
Stopped_StaysActive(job, keep) ==
    [job EXCEPT !.Ticker.running = FALSE,
                !.Ticker.C = IF keep THEN @ ELSE 0,
                !.StopChan = @ + 1]

\* job.Ticker.Stop(); close(job.StopChan); job.IsActive = false
\* A tick already buffered in Ticker.C stays receivable or not, depending
\* on the Go release the program is built with: keep is that choice.
\* StopChan counts the close calls: a second close would panic.
Stopped(job, keep) ==
    [job EXCEPT !.Ticker.running = FALSE,
                !.Ticker.C = IF keep THEN @ ELSE 0,
                !.StopChan = @ + 1,
                !.IsActive = FALSE]

\* StopScraper that tests only "exists", not job.IsActive (line 88).
StopScraper_NoActiveCheck(c) ==
    /\ pc[c].op = "StopScraper"
    /\ LET name == pc[c].name IN
       IF scrapers[name] = NoJob
       THEN /\ ret' = [NoRet EXCEPT !.err = "not running"]
            /\ UNCHANGED jobs
       ELSE /\ \E keep \in BOOLEAN :
                 jobs' = [jobs EXCEPT ![scrapers[name]] = Stopped(@, keep)]
            /\ ret' = [NoRet EXCEPT !.err = "nil"]
    /\ started' = started \ {pc[c].name}
    /\ mu' = Unlock(c)
    /\ pc' = [pc EXCEPT ![c] = Idle]
    /\ UNCHANGED <<scrapers, first, loop>>
    /\ UNCHANGED engVars

\* StopScraper that stops every active job instead of the named one.
StopScraper_StopsEveryJob(c) ==
    /\ pc[c].op = "StopScraper"
    /\ LET name == pc[c].name IN
       IF ~Running(name)
       THEN /\ ret' = [NoRet EXCEPT !.err = "not running"]
            /\ UNCHANGED jobs
       ELSE /\ \E keep \in BOOLEAN :
                 jobs' = [j \in JobIds |->
                             IF jobs[j].IsActive THEN Stopped(jobs[j], keep)
                                                 ELSE jobs[j]]
            /\ ret' = [NoRet EXCEPT !.err = "nil"]
    /\ started' = started \ {pc[c].name}
    /\ mu' = Unlock(c)
    /\ pc' = [pc EXCEPT ![c] = Idle]
    /\ UNCHANGED <<scrapers, first, loop>>
    /\ UNCHANGED engVars

StopScraper(c) ==
    /\ pc[c].op = "StopScraper"
    /\ LET name == pc[c].name IN
       IF ~Running(name)
       THEN /\ ret' = [NoRet EXCEPT !.err = "not running"]
            /\ UNCHANGED jobs
       ELSE /\ \E keep \in BOOLEAN :
                 jobs' = [jobs EXCEPT ![scrapers[name]] = Stopped(@, keep)]
            /\ ret' = [NoRet EXCEPT !.err = "nil"]
    /\ started' = started \ {pc[c].name}
    /\ mu' = Unlock(c)
    /\ pc' = [pc EXCEPT ![c] = Idle]
    /\ UNCHANGED <<scrapers, first, loop>>
    /\ UNCHANGED engVars

\* The orders in which ranging over a map may visit the names in S.
RECURSIVE Orders(_)
Orders(S) ==
    IF S = {} THEN {<<>>}
    ELSE UNION {{<<n>> \o rest : rest \in Orders(S \ {n})} : n \in S}

\* The names a range over s.scrapers finds with job.IsActive set.
ActiveNames == {n \in Names : scrapers[n] # NoJob /\ jobs[scrapers[n]].IsActive}

\* StopAll that tests only that the entry exists, not job.IsActive (line 105).
StopAll_NoActiveCheck(c) ==
    /\ pc[c].op = "StopAll"
    /\ \E keep \in [JobIds -> BOOLEAN] :
          jobs' = [j \in JobIds |->
                      IF scrapers[jobs[j].Scraper] = j
                      THEN Stopped(jobs[j], keep[j])
                      ELSE jobs[j]]
    /\ \E stopped \in Orders({n \in Names : scrapers[n] # NoJob}) :
          ret' = [NoRet EXCEPT !.err = "returned", !.list = stopped]
    /\ started' = {}
    /\ mu' = Unlock(c)
    /\ pc' = [pc EXCEPT ![c] = Idle]
    /\ UNCHANGED <<scrapers, first, loop>>
    /\ UNCHANGED engVars

\* StopAll returns nothing; the names of its "Stopped scheduler for" log
\* lines (line 109) are recorded in ret.list, in the order of the range.
StopAll(c) ==
    /\ pc[c].op = "StopAll"
    /\ \E keep \in [JobIds -> BOOLEAN] :
          jobs' = [j \in JobIds |->
                      IF scrapers[jobs[j].Scraper] = j /\ jobs[j].IsActive
                      THEN Stopped(jobs[j], keep[j])
                      ELSE jobs[j]]
    /\ \E stopped \in Orders(ActiveNames) :
          ret' = [NoRet EXCEPT !.err = "returned", !.list = stopped]
    /\ started' = {}
    /\ mu' = Unlock(c)
    /\ pc' = [pc EXCEPT ![c] = Idle]
    /\ UNCHANGED <<scrapers, first, loop>>
    /\ UNCHANGED engVars

IsActive(c) ==
    /\ pc[c].op = "IsActive"
    /\ ret' = [NoRet EXCEPT !.err = "nil", !.bool = Running(pc[c].name)]
    /\ mu' = Unlock(c)
    /\ pc' = [pc EXCEPT ![c] = Idle]
    /\ UNCHANGED <<scrapers, jobs, first, loop, started>>
    /\ UNCHANGED engVars

GetActiveScrapers(c) ==
    /\ pc[c].op = "GetActiveScrapers"
    /\ \E active \in Orders(ActiveNames) :
          ret' = [NoRet EXCEPT !.err = "nil", !.list = active]
    /\ mu' = Unlock(c)
    /\ pc' = [pc EXCEPT ![c] = Idle]
    /\ UNCHANGED <<scrapers, jobs, first, loop, started>>
    /\ UNCHANGED engVars

-----------------------------------------------------------------------------
(* The goroutines of a job and its ticker.  None of them takes s.mu.       *)

\* The runtime delivers a tick: Ticker.C has room for one tick, a tick
\* that finds it full is dropped.
Tick(j) ==
    /\ jobs[j].Ticker.running
    /\ jobs' = [jobs EXCEPT ![j].Ticker.C = 1]
    /\ UNCHANGED <<scrapers, first, loop, mu, pc, ret, started>>
    /\ UNCHANGED engVars

\* A first run that executes with the registry lock held.
FirstRunBegin_HoldsLock(j) ==
    /\ first[j] = "spawned"
    /\ mu.writer = "none" /\ mu.readers = {}
    /\ mu' = [mu EXCEPT !.writer = "crawl"]
    /\ first' = [first EXCEPT ![j] = "running"]
    /\ UNCHANGED <<scrapers, jobs, loop, pc, ret, started>>
    /\ UNCHANGED engVars

\* go func() { scraperInstance.ScrapeOnce() ... }(): the call is entered
FirstRunBegin(j) ==
    /\ first[j] = "spawned"
    /\ first' = [first EXCEPT ![j] = "running"]
    /\ UNCHANGED <<scrapers, jobs, loop, mu, pc, ret, started>>
    /\ UNCHANGED engVars

\* ... and returns; its result is only logged.
FirstRunEnd(j) ==
    /\ first[j] = "running"
    /\ first' = [first EXCEPT ![j] = "done"]
    /\ UNCHANGED <<scrapers, jobs, loop, mu, pc, ret, started>>
    /\ UNCHANGED engVars

\* A tick loop that enters ScrapeOnce without receiving from Ticker.C.
LoopTick_NoReceive(j) ==
    /\ loop[j] = "select"
    /\ loop' = [loop EXCEPT ![j] = "running"]
    /\ UNCHANGED <<scrapers, jobs, first, mu, pc, ret, started>>
    /\ UNCHANGED engVars

\* select: case <-job.Ticker.C: ScrapeOnce is entered
LoopTick(j) ==
    /\ loop[j] = "select"
    /\ jobs[j].Ticker.C = 1
    /\ jobs' = [jobs EXCEPT ![j].Ticker.C = 0]
    /\ loop' = [loop EXCEPT ![j] = "running"]
    /\ UNCHANGED <<scrapers, first, mu, pc, ret, started>>
    /\ UNCHANGED engVars

\* ScrapeOnce returns to the loop; its result is only logged.
LoopRunEnd(j) ==
    /\ loop[j] = "running"
    /\ loop' = [loop EXCEPT ![j] = "select"]
    /\ UNCHANGED <<scrapers, jobs, first, mu, pc, ret, started>>
    /\ UNCHANGED engVars

\* select: case <-job.StopChan: return
LoopStop(j) ==
    /\ loop[j] = "select"
    /\ jobs[j].StopChan >= 1
    /\ loop' = [loop EXCEPT ![j] = "exited"]
    /\ UNCHANGED <<scrapers, jobs, first, mu, pc, ret, started>>
    /\ UNCHANGED engVars

-----------------------------------------------------------------------------

Next ==
    \/ \E c \in Callers, op \in WriteOps : \E n \in Args(op) : Lock(c, op, n)
    \/ \E c \in Callers, op \in ReadOps : \E n \in Args(op) : RLock(c, op, n)
    \/ \E c \in Callers : StartScraper(c)
    \/ \E c \in Callers : StopScraper(c)
    \/ \E c \in Callers : StopAll(c)
    \/ \E c \in Callers : IsActive(c)
    \/ \E c \in Callers : GetActiveScrapers(c)
    \/ \E j \in JobIds : Tick(j)
    \/ \E j \in JobIds : FirstRunBegin(j)
    \/ \E j \in JobIds : FirstRunEnd(j)
    \/ \E j \in JobIds : LoopTick(j)
    \/ \E j \in JobIds : LoopRunEnd(j)
    \/ \E j \in JobIds : LoopStop(j)

Spec == Init /\ [][Next]_vars

TypeOK ==
    /\ scrapers \in [Names -> 0..Len(jobs)]
    /\ Len(first) = Len(jobs) /\ Len(loop) = Len(jobs)
    /\ \A j \in JobIds : jobs[j].StopChan \in 0..1

-----------------------------------------------------------------------------
(* Properties of the MultiScheduler.                                       *)

IsError(r) == r.err \notin {"none", "nil", "returned"}

\* The call op(n) that caller c is executing returns in this step.
Returns(c, op, n) == pc[c] = [op |-> op, name |-> n] /\ pc'[c] = Idle

\* The ScrapeOnce executions of source n that are in progress.
RunsInProgress(n) ==
    {<<j, "first">> : j \in {i \in JobIds : jobs[i].Scraper = n
                                            /\ first[i] = "running"}}
    \cup {<<j, "loop">> : j \in {i \in JobIds : jobs[i].Scraper = n
                                              /\ loop[i] = "running"}}

\* A ScrapeOnce execution of job j is entered in this step.
RunBegins(j) ==
    \/ first[j] = "spawned" /\ first'[j] = "running"
    \/ loop[j] = "select" /\ loop'[j] = "running"

\* The job objects of source n that are active.
ActiveJobs(n) == {j \in JobIds : jobs[j].Scraper = n /\ jobs[j].IsActive}

\* C1: at no time are two crawl runs (ScrapeOnce executions) of the same
\* source in progress simultaneously.
C1_RunsNeverOverlap ==
    \A n \in Names : Cardinality(RunsInProgress(n)) <= 1

\* C2: a StartScraper call for a name that was started and not stopped since
\* returns an error and changes nothing: the registry, the first start's job
\* (ticker, stop signal) and the goroutines are as before, and exactly one
\* job of that name is active.
C2_SecondStartRejected ==
    [][\A c \in Callers, n \in Names :
          Returns(c, "StartScraper", n) /\ n \in started
          => /\ IsError(ret')
             /\ UNCHANGED <<scrapers, jobs, first, loop, started>>
             /\ Cardinality(ActiveJobs(n)') = 1]_vars

\* A second start of a running source has been rejected.
C2_Witness ==
    /\ ret.err = "already running"
    /\ \E n \in Names : Running(n)

\* C3: while a source is stopped no crawl run of it begins (neither the
\* immediate first run nor a tick-triggered run), and a stop leaves the
\* runs in progress running.
C3_NoRunBeginsWhileStopped ==
    [][/\ \A j \in JobIds : RunBegins(j) => jobs[j].Scraper \in started
       /\ \A c \in Callers, m \in Names \cup {"-"} :
             Returns(c, "StopScraper", m) \/ Returns(c, "StopAll", m)
             => \A n \in Names : RunsInProgress(n)' = RunsInProgress(n)]_vars

C5_StopOfIdleRejected ==
    [][\A c \in Callers, n \in Names :
          Returns(c, "StopScraper", n) /\ n \notin started
          => /\ IsError(ret')
             /\ UNCHANGED <<scrapers, jobs, first, loop, started>>]_vars

\* A stop was rejected when every job that was ever started is stopped.
C5_Witness ==
    /\ ret.err = "not running"
    /\ JobIds # {}
    /\ \A j \in JobIds : jobs[j].StopChan = 1 /\ ~jobs[j].IsActive

Range(q) == {q[i] : i \in 1..Len(q)}

\* C7: a name is active (IsActive, GetActiveScrapers) exactly from a
\* successful StartScraper of it until the next StopScraper of it or StopAll;
\* a StartScraper of a configured name that is not active succeeds, also
\* after a stop, and installs a new job with a running ticker and an open
\* stop signal; GetActiveScrapers returns each active name once.
C7_Lifecycle ==
    /\ [](\A n \in Names : Running(n) <=> n \in started)
    /\ [][\A c \in Callers :
             /\ \A n \in Configured :
                   Returns(c, "StartScraper", n) /\ n \notin started
                   => /\ ret'.err = "nil"
                      /\ n \in started'
                      /\ scrapers'[n] \in JobIds' \ JobIds
                      /\ jobs'[scrapers'[n]] = NewJob(n)
             /\ \A n \in Names :
                   Returns(c, "StopScraper", n) /\ n \in started
                   => ret'.err = "nil" /\ n \notin started'
             /\ \A n \in Names :
                   Returns(c, "IsActive", n) => ret'.bool = (n \in started)
             /\ Returns(c, "GetActiveScrapers", "-")
                => /\ Range(ret'.list) = started
                   /\ Len(ret'.list) = Cardinality(started)]_vars

\* A source was started, stopped and started again, and GetActiveScrapers
\* has returned exactly its name.
C7_Witness ==
    \E i, j \in JobIds :
        /\ i < j /\ jobs[i].Scraper = jobs[j].Scraper
        /\ jobs[i].StopChan = 1 /\ jobs[j].IsActive
        /\ ret.err = "nil" /\ ret.list = <<jobs[j].Scraper>>

\* C8: StopAll deactivates every active entry exactly once: afterwards no
\* source is active, every job that was active has its ticker stopped and
\* its stop signal fired once, and the jobs that were inactive are as before.
C8_StopAllOnce ==
    [][\A c \in Callers :
          Returns(c, "StopAll", "-")
          => /\ \A n \in Names : ~Running(n)'
             /\ Range(ret'.list) = started
             /\ \A j \in JobIds :
                   IF jobs[j].IsActive
                   THEN /\ ~jobs'[j].IsActive
                        /\ ~jobs'[j].Ticker.running
                        /\ jobs[j].StopChan = 0 /\ jobs'[j].StopChan = 1
                   ELSE jobs'[j] = jobs[j]]_vars

\* StopAll has stopped two sources in one call.
C8_Witness ==
    /\ ret.err = "returned" /\ Len(ret.list) = 2
    /\ \A j \in JobIds : jobs[j].StopChan = 1

\* A call of a public method can be made by caller c.
CallEnters(c, op, n) == Lock(c, op, n) \/ RLock(c, op, n)

\* The call caller c is executing can run to its return.
CallReturns(c) ==
    \/ StartScraper(c) \/ StopScraper(c) \/ StopAll(c)
    \/ IsActive(c) \/ GetActiveScrapers(c)

\* C9: crawls run outside the registry lock: whatever the crawls are doing
\* (in progress, never returning), a caller outside the methods can enter
\* any of the five methods and a caller inside one can run it to its return;
\* a successful StartScraper returns with the first run only dispatched.
C9_CrawlOutsideLock ==
    /\ [](\A c \in Callers :
             /\ pc[c] # Idle => ENABLED CallReturns(c)
             /\ pc[c] = Idle
                => \A op \in WriteOps \cup ReadOps : \A n \in Args(op) :
                      Issuable(op, n) => ENABLED CallEnters(c, op, n))
    /\ [][\A c \in Callers, n \in Names :
             Returns(c, "StartScraper", n) /\ ret'.err = "nil"
             => /\ first'[scrapers'[n]] = "spawned"
                /\ loop'[scrapers'[n]] = "select"]_vars

\* A call is inside StopScraper while a first run and a tick-triggered run
\* are in progress.
C9_Witness ==
    /\ \E c \in Callers : pc[c].op = "StopScraper"
    /\ \E j \in JobIds : first[j] = "running" /\ loop[j] = "running"

\* C10 as stated: every tick delivered before the loop observes the stop
\* signal starts a crawl run: a delivered tick leaves Ticker.C only by
\* starting a run, and none is left in it when the loop exits.
C10_EveryTickStartsRun ==
    /\ [](\A j \in JobIds : loop[j] = "exited" => jobs[j].Ticker.C = 0)
    /\ [][\A j \in JobIds :
             jobs[j].Ticker.C = 1 /\ jobs'[j].Ticker.C = 0
             => loop[j] = "select" /\ loop'[j] = "running"]_vars

\* C10 (amended): a successful StartScraper dispatches exactly one immediate
\* run and one tick loop; the loop starts a crawl run only by receiving a
\* tick from Ticker.C, one run per tick received, and starts none once it
\* has observed the stop signal.
C10_OneRunPerReceivedTick ==
    [][/\ \A c \in Callers, n \in Names :
             Returns(c, "StartScraper", n) /\ ret'.err = "nil"
             => /\ Len(first') = Len(first) + 1 /\ Len(loop') = Len(loop) + 1
                /\ first'[scrapers'[n]] = "spawned"
                /\ loop'[scrapers'[n]] = "select"
       /\ \A j \in JobIds :
             /\ first'[j] # first[j]
                => <<first[j], first'[j]>> \in {<<"spawned", "running">>,
                                                <<"running", "done">>}
             /\ loop[j] # "running" /\ loop'[j] = "running"
                => /\ loop[j] = "select"
                   /\ jobs[j].Ticker.C = 1 /\ jobs'[j].Ticker.C = 0
             /\ loop[j] = "exited" => loop'[j] = "exited"
             /\ loop[j] # "exited" /\ loop'[j] = "exited"
                => loop[j] = "select" /\ jobs[j].StopChan >= 1]_vars

\* The immediate run of a job is over and its loop runs a crawl that a tick
\* started.
C10_Witness ==
    \E j \in JobIds : first[j] = "done" /\ loop[j] = "running"

(***************************************************************************)
(* Part 2: SmartScraper.ScrapeWithStrategy                                 *)
(***************************************************************************)

Max(a, b) == IF a >= b THEN a ELSE b
MaxOf(S) == IF S = {} THEN 0 ELSE CHOOSE x \in S : \A y \in S : y <= x

\* What ParseDocument can return for one page: records with HnID > 0, in
\* document order.
PagesUpTo(n) == UNION {[1..k -> Ids] : k \in 0..n}
Pages == PagesUpTo(MaxPageLen)

\* The pages a fetch of page p can return, and the score shown for an id.
Served(p) ==
    IF web.steady
    THEN {IF p <= Len(web.pages) THEN web.pages[p] ELSE <<>>}
    ELSE PagesUpTo(web.len)
Shown(id) == {web.points[id]}

\* The outcomes of a store operation (TRUE: it succeeded) while the run has
\* had fewer than MaxFailures failures, and the number of failures among some.
MayFail ==
    IF ~web.steady /\ obs.failures < MaxFailures THEN BOOLEAN ELSE {TRUE}
MayFailFirst == IF web.steady THEN {TRUE} ELSE BOOLEAN

\* A fetch (http.Get, the read of the document) can fail: in the world in
\* general, and in a steady world that is flaky.
FetchMayFail == ~web.steady \/ web.flaky
Cnt(ok) == IF ok THEN 0 ELSE 1

\* Repository operations, as the statements they execute when they succeed.
GetLatestHNPostID(st) == MaxOf({id \in Ids : st.posts[id] # Absent})
PostExists(st, id) == st.posts[id] # Absent
InsertPost(st, id, pts) == [st EXCEPT !.posts[id] = pts]
recordPostHistory(st, id, ok) ==
    [st EXCEPT !.history = IF ok THEN @ + 1 ELSE @]
UpdatePost(st, id, pts, hOk) ==
    recordPostHistory([st EXCEPT !.posts[id] = pts], id, hOk)
CreateDetailedScrapingJob(st) == [st EXCEPT !.jobs = @ + 1]

\* NewSmartScraper that enables stopOnDuplicate for every mode but latest-only
\* (line 163).
NewSmartScraper_StopsFullOnDuplicate(mode, maxPages) ==
    [NoRun EXCEPT !.mode = mode, !.maxPages = maxPages,
                  !.stopOnDuplicate = mode # "latest"]

NewSmartScraper(mode, maxPages) ==
    [NoRun EXCEPT !.mode = mode, !.maxPages = maxPages,
                  !.stopOnDuplicate = mode \in {"until_existing", "since_last"}]

\* The mode function the switch of ScrapeWithStrategy selects.
Routine == IF run.mode \in Modes THEN run.mode ELSE "latest"

\* The next iteration of a loop over run.posts, or its end; the slice is not
\* read after the loop.
Advance(r) ==
    IF r.i = Len(r.posts)
    THEN [r EXCEPT !.pc = "pageEnd", !.posts = <<>>, !.i = 0]
    ELSE [r EXCEPT !.i = @ + 1]

\* The mode function returns err: its locals are gone.
Return(r, err) ==
    [NewSmartScraper(r.mode, r.maxPages) EXCEPT !.pc = "finish", !.err = err]

\* The records of a fetched page become part of what the run has observed.
Observe(content) ==
    LET K == run.lastKnownID
        known == {k \in 1..Len(content) : content[k] <= K}
        upto == IF known = {} THEN Len(content) ELSE MaxOf({0} \cup {k \in 1..Len(content) : \A h \in 1..k : content[h] > K})
    IN  [obs EXCEPT
            !.fetched = @ + 1,
            !.delayed = FALSE,
            !.emptyRun = IF content = <<>> THEN @ + 1 ELSE 0,
            !.pageNew = 0,
            !.lastFull = IF content = <<>> THEN @ ELSE run.page,
            !.seenAny = @ \/ content # <<>>,
            !.seenMax = Max(@, MaxOf({content[k] : k \in 1..Len(content)})),
            !.pending = IF obs.knownSeen \/ Routine # "since_last" THEN @
                        ELSE @ \o SubSeq(content, 1, upto),
            !.knownSeen = @ \/ (Routine = "since_last" /\ known # {})]

\* ScrapeWithStrategy that starts from lastKnownID 0 whatever the store holds
\* (lines 173-177).
Start_IgnoresLatestID(mode, maxPages) ==
    /\ run.pc \in {"idle", "done"}
    /\ \E readOk \in MayFailFirst :
         LET lastKnownID == 0 IN
         /\ run' = [NewSmartScraper(mode, maxPages) EXCEPT
                        !.pc = "loop", !.page = 1,
                        !.lastKnownID = lastKnownID]
         /\ result' = [ZeroResult EXCEPT !.Mode = mode,
                                         !.LastKnownID = lastKnownID]
         /\ obs' = [NoObs EXCEPT
                !.K = GetLatestHNPostID(store),
                !.failures = Cnt(readOk),
                !.K0 = IF runs = 0 THEN GetLatestHNPostID(store) ELSE obs.K0,
                !.priorErrs = IF runs = 0 THEN 0
                              ELSE obs.priorErrs + obs.fetchErrs]
    /\ runs' = runs + 1
    /\ UNCHANGED <<store, web, schedVars, pureVars, auxVars>>

\* ScrapeWithStrategy up to the switch on the mode.
Start(mode, maxPages) ==
    /\ run.pc \in {"idle", "done"}
    /\ \E readOk \in MayFailFirst :
         LET lastKnownID == IF readOk THEN GetLatestHNPostID(store) ELSE 0 IN
         /\ run' = [NewSmartScraper(mode, maxPages) EXCEPT
                        !.pc = "loop", !.page = 1,
                        !.lastKnownID = lastKnownID]
         /\ result' = [ZeroResult EXCEPT !.Mode = mode,
                                         !.LastKnownID = lastKnownID]
         /\ obs' = [NoObs EXCEPT
                !.K = GetLatestHNPostID(store),
                !.failures = Cnt(readOk),
                !.K0 = IF runs = 0 THEN GetLatestHNPostID(store) ELSE obs.K0,
                !.priorErrs = IF runs = 0 THEN 0
                              ELSE obs.priorErrs + obs.fetchErrs]
    /\ runs' = runs + 1
    /\ UNCHANGED <<store, web, schedVars, pureVars, auxVars>>

\* A caller makes a SmartScraper and runs it.
Begin(mode, maxPages) == runs = 0 /\ Start(mode, maxPages)

\* The latest-only scraper is run again.
Rerun == runs < MaxReruns /\ Start("latest", 1)

\* savePosts, one iteration of its loop (latest-only and full-archive).
savePosts_CountsRejected ==
    /\ run.pc = "records"
    /\ Routine \in {"latest", "full"}
    /\ LET id == run.posts[run.i] IN
       \E exOk, wrOk, hOk \in MayFail, pts \in Shown(id) :
         LET exists == exOk /\ PostExists(store, id) IN
         /\ obs.failures + Cnt(exOk) + Cnt(wrOk) + Cnt(hOk) <= MaxFailures
         /\ ~hOk => exists /\ wrOk
         /\ store' = IF ~wrOk THEN store
                     ELSE IF exists THEN UpdatePost(store, id, pts, hOk)
                     ELSE InsertPost(store, id, pts)
         /\ result' = [result EXCEPT
                !.UpdatedPosts = IF exists /\ wrOk THEN @ + 1 ELSE @,
                !.NewPosts = IF ~exists THEN @ + 1 ELSE @,
                !.HighestIDSeen = Max(@, id)]
         /\ run' = Advance([run EXCEPT
                !.saved = IF ~exists THEN @ + 1 ELSE @])
         /\ obs' = [obs EXCEPT
                !.rejected = @ + Cnt(wrOk),
                !.failures = @ + Cnt(exOk) + Cnt(wrOk) + Cnt(hOk)]
    /\ UNCHANGED <<web, runs, schedVars, pureVars, auxVars>>

savePosts ==
    /\ run.pc = "records"
    /\ Routine \in {"latest", "full"}
    /\ LET id == run.posts[run.i] IN
       \E exOk, wrOk, hOk \in MayFail, pts \in Shown(id) :
         LET exists == exOk /\ PostExists(store, id) IN
         /\ obs.failures + Cnt(exOk) + Cnt(wrOk) + Cnt(hOk) <= MaxFailures
         /\ ~hOk => exists /\ wrOk
         /\ store' = IF ~wrOk THEN store
                     ELSE IF exists THEN UpdatePost(store, id, pts, hOk)
                     ELSE InsertPost(store, id, pts)
         /\ result' = [result EXCEPT
                !.UpdatedPosts = IF exists /\ wrOk THEN @ + 1 ELSE @,
                !.NewPosts = IF ~exists /\ wrOk THEN @ + 1 ELSE @,
                !.HighestIDSeen = Max(@, id)]
         /\ run' = Advance([run EXCEPT
                !.saved = IF ~exists /\ wrOk THEN @ + 1 ELSE @])
         /\ obs' = [obs EXCEPT
                !.rejected = @ + Cnt(wrOk),
                !.failures = @ + Cnt(exOk) + Cnt(wrOk) + Cnt(hOk)]
    /\ UNCHANGED <<web, runs, schedVars, pureVars, auxVars>>

\* scrapeLatestPage: the fetch of page 1.
LatestFetch ==
    /\ run.pc = "loop"
    /\ Routine = "latest"
    /\ \/ /\ FetchMayFail
          /\ run' = Return(run, "fetch")
          /\ obs' = [obs EXCEPT !.fetchErrs = @ + 1, !.delayed = FALSE]
          /\ UNCHANGED result
       \/ \E content \in Served(1) :
            /\ run' = [run EXCEPT
                   !.posts = content, !.i = 1, !.saved = 0,
                   !.pc = IF content = <<>> THEN "pageEnd" ELSE "records"]
            /\ obs' = Observe(content)
            /\ UNCHANGED result
    /\ UNCHANGED <<store, web, runs, schedVars, pureVars, auxVars>>

\* scrapeLatestPage: after savePosts.
LatestEnd ==
    /\ run.pc = "pageEnd"
    /\ Routine = "latest"
    /\ result' = [result EXCEPT !.PostsScraped = @ + run.saved,
                                !.PagesScraped = 1]
    /\ run' = Return(run, "nil")
    /\ UNCHANGED <<store, web, obs, runs, schedVars, pureVars, auxVars>>

\* The condition of the page loop of the three paging modes.
LoopCond ==
    /\ run.page <= run.maxPages
    /\ Routine = "since_last" => ~run.foundLastKnown

\* scrapeSinceLast: the statements after its page loop begin at "insert".
AfterScan(r) ==
    IF r.allNewPosts = <<>> THEN Return(r, "nil")
    ELSE [r EXCEPT !.pc = "insert", !.posts = <<>>, !.i = 0]

\* The page loop ends because its condition is false.
LoopExit ==
    /\ run.pc = "loop"
    /\ Routine # "latest"
    /\ ~LoopCond
    /\ run' = IF Routine = "since_last" THEN AfterScan(run)
              ELSE Return(run, "nil")
    /\ UNCHANGED <<store, web, result, obs, runs, schedVars, pureVars, auxVars>>

\* time.Sleep at the end of an iteration of a page loop, and page++.
Sleep_SamePage ==
    /\ run.pc = "sleep"
    /\ run' = [run EXCEPT !.pc = "loop"]
    /\ obs' = [obs EXCEPT !.delayed = TRUE]
    /\ UNCHANGED <<store, web, result, runs, schedVars, pureVars, auxVars>>

Sleep ==
    /\ run.pc = "sleep"
    /\ run' = [run EXCEPT !.pc = "loop", !.page = @ + 1]
    /\ obs' = [obs EXCEPT !.delayed = TRUE]
    /\ UNCHANGED <<store, web, result, runs, schedVars, pureVars, auxVars>>

\* scrapeSinceLast: the fetch of a page.
SinceFetch ==
    /\ run.pc = "loop"
    /\ Routine = "since_last"
    /\ LoopCond
    /\ \/ /\ FetchMayFail
          /\ run' = AfterScan(run)
          /\ obs' = [obs EXCEPT !.fetchErrs = @ + 1, !.delayed = FALSE]
       \/ \E content \in Served(run.page) :
            /\ run' = [run EXCEPT
                   !.posts = content, !.i = 1,
                   !.pc = IF content = <<>> THEN "pageEnd" ELSE "records"]
            /\ obs' = Observe(content)
    /\ UNCHANGED <<store, web, result, runs, schedVars, pureVars, auxVars>>

\* scrapeSinceLast: one iteration of the loop over the records of a page.
SinceScan_NoBreak ==
    /\ run.pc = "records"
    /\ Routine = "since_last"
    /\ LET id == run.posts[run.i] IN
       run' = IF id <= run.lastKnownID
              THEN Advance([run EXCEPT !.foundLastKnown = TRUE])
              ELSE Advance([run EXCEPT !.allNewPosts = Append(@, id)])
    /\ UNCHANGED <<store, web, result, obs, runs, schedVars, pureVars, auxVars>>

SinceScan ==
    /\ run.pc = "records"
    /\ Routine = "since_last"
    /\ LET id == run.posts[run.i] IN
       run' = IF id <= run.lastKnownID
              THEN [run EXCEPT !.foundLastKnown = TRUE, !.pc = "pageEnd",
                               !.posts = <<>>, !.i = 0]
              ELSE Advance([run EXCEPT !.allNewPosts = Append(@, id)])
    /\ UNCHANGED <<store, web, result, obs, runs, schedVars, pureVars, auxVars>>

\* scrapeSinceLast: the end of an iteration of the page loop.
SincePageEnd ==
    /\ run.pc = "pageEnd"
    /\ Routine = "since_last"
    /\ result' = [result EXCEPT !.PagesScraped = run.page]
    /\ run' = [run EXCEPT !.pc = "sleep"]
    /\ UNCHANGED <<store, web, obs, runs, schedVars, pureVars, auxVars>>

\* The sets of at most b of the indices 1..n: the iterations of a loop over n
\* records whose store operation fails.
RECURSIVE AtMost(_, _)
AtMost(n, b) ==
    IF n = 0 \/ b = 0 THEN {{}}
    ELSE AtMost(n - 1, b) \cup {S \cup {n} : S \in AtMost(n - 1, b - 1)}

\* The store after InsertPost of the records seq[i..], those in fails failing.
RECURSIVE InsertEach(_, _, _, _)
InsertEach(st, seq, fails, i) ==
    IF i > Len(seq) THEN st
    ELSE InsertEach(IF i \in fails THEN st
                    ELSE InsertPost(st, seq[i], web.points[seq[i]]),
                    seq, fails, i + 1)

\* scrapeSinceLast: the loop over allNewPosts.
SinceInsert ==
    /\ run.pc = "insert"
    /\ LET seq == run.allNewPosts
           budget == IF web.steady THEN 0 ELSE MaxFailures - obs.failures IN
       \E fails \in AtMost(Len(seq), budget) :
         LET ok == (1..Len(seq)) \ fails IN
         /\ store' = InsertEach(store, seq, fails, 1)
         /\ result' = [result EXCEPT
                !.PostsScraped = @ + Cardinality(ok),
                !.NewPosts = @ + Cardinality(ok)]
         /\ obs' = [obs EXCEPT
                !.pending = <<>>,
                !.rejected = @ + Cardinality(fails),
                !.failures = @ + Cardinality(fails)]
    /\ run' = Return(run, "nil")
    /\ UNCHANGED <<web, runs, schedVars, pureVars, auxVars>>

\* scrapeFullArchive: the fetch and parse of a page.
FullFetch_CountsEmptyPage ==
    /\ run.pc = "loop"
    /\ Routine = "full"
    /\ LoopCond
    /\ \/ /\ FetchMayFail
          /\ result' = [result EXCEPT !.Errors = Append(@, run.page)]
          /\ run' = Return(run, "nil")
          /\ obs' = [obs EXCEPT !.fetchErrs = @ + 1, !.delayed = FALSE]
       \/ \E content \in Served(run.page) :
            /\ run' = IF content = <<>> THEN Return(run, "nil")
                      ELSE [run EXCEPT !.posts = content, !.i = 1,
                                       !.saved = 0, !.pc = "records"]
            /\ obs' = Observe(content)
            /\ result' = [result EXCEPT !.PagesScraped = run.page]
    /\ UNCHANGED <<store, web, runs, schedVars, pureVars, auxVars>>

FullFetch ==
    /\ run.pc = "loop"
    /\ Routine = "full"
    /\ LoopCond
    /\ \/ /\ FetchMayFail
          /\ result' = [result EXCEPT !.Errors = Append(@, run.page)]
          /\ run' = Return(run, "nil")
          /\ obs' = [obs EXCEPT !.fetchErrs = @ + 1, !.delayed = FALSE]
       \/ \E content \in Served(run.page) :
            /\ run' = IF content = <<>> THEN Return(run, "nil")
                      ELSE [run EXCEPT !.posts = content, !.i = 1,
                                       !.saved = 0, !.pc = "records"]
            /\ obs' = Observe(content)
            /\ UNCHANGED result
    /\ UNCHANGED <<store, web, runs, schedVars, pureVars, auxVars>>

\* scrapeFullArchive: after savePosts.
FullPageEnd ==
    /\ run.pc = "pageEnd"
    /\ Routine = "full"
    /\ result' = [result EXCEPT !.PostsScraped = @ + run.saved,
                                !.PagesScraped = run.page]
    /\ run' = IF run.stopOnDuplicate /\ run.saved = 0 THEN Return(run, "nil")
              ELSE [run EXCEPT !.pc = "sleep"]
    /\ UNCHANGED <<store, web, obs, runs, schedVars, pureVars, auxVars>>

\* scrapeUntilExisting: the fetch of a page and the empty-page test.
UntilFetch_StopsAtFirstEmpty ==
    /\ run.pc = "loop"
    /\ Routine = "until_existing"
    /\ LoopCond
    /\ \/ /\ FetchMayFail
          /\ result' = [result EXCEPT !.Errors = Append(@, run.page)]
          /\ run' = Return(run, "nil")
          /\ obs' = [obs EXCEPT !.fetchErrs = @ + 1, !.delayed = FALSE]
       \/ \E content \in Served(run.page) :
            /\ run' =
                 IF content = <<>>
                 THEN Return(run, "nil")
                 ELSE [run EXCEPT !.consecutiveEmptyPages = 0,
                                  !.posts = content, !.i = 1, !.newPosts = 0,
                                  !.pc = "records"]
            /\ obs' = Observe(content)
            /\ UNCHANGED result
    /\ UNCHANGED <<store, web, runs, schedVars, pureVars, auxVars>>

UntilFetch ==
    /\ run.pc = "loop"
    /\ Routine = "until_existing"
    /\ LoopCond
    /\ \/ /\ FetchMayFail
          /\ result' = [result EXCEPT !.Errors = Append(@, run.page)]
          /\ run' = Return(run, "nil")
          /\ obs' = [obs EXCEPT !.fetchErrs = @ + 1, !.delayed = FALSE]
       \/ \E content \in Served(run.page) :
            /\ run' =
                 IF content = <<>>
                 THEN IF run.consecutiveEmptyPages + 1 >= EmptyPagesLimit
                      THEN Return(run, "nil")
                      ELSE [run EXCEPT !.consecutiveEmptyPages = @ + 1,
                                       !.page = @ + 1, !.pc = "loop"]
                 ELSE [run EXCEPT !.consecutiveEmptyPages = 0,
                                  !.posts = content, !.i = 1, !.newPosts = 0,
                                  !.pc = "records"]
            /\ obs' = Observe(content)
            /\ UNCHANGED result
    /\ UNCHANGED <<store, web, runs, schedVars, pureVars, auxVars>>

\* scrapeUntilExisting: one iteration of the loop over the records of a page.
UntilRecord_CountResetsPerPage ==
    /\ run.pc = "records"
    /\ Routine = "until_existing"
    /\ LET id == run.posts[run.i]
           count == IF run.i = 1 THEN 0 ELSE run.duplicateCount IN
       \E exOk, wrOk \in MayFail, pts \in Shown(id) :
         LET exists == PostExists(store, id) IN
         /\ obs.failures + Cnt(exOk) + Cnt(wrOk) <= MaxFailures
         /\ ~wrOk => exOk /\ ~exists
         /\ run' =
              IF ~exOk THEN Advance(run)
              ELSE IF exists
              THEN IF count + 1 >= DuplicateThreshold
                   THEN Return(run, "nil")
                   ELSE Advance([run EXCEPT !.duplicateCount = count + 1])
              ELSE Advance([run EXCEPT
                               !.duplicateCount = 0,
                               !.newPosts = IF wrOk THEN @ + 1 ELSE @])
         /\ store' = IF exOk /\ ~exists /\ wrOk
                     THEN InsertPost(store, id, pts) ELSE store
         /\ result' = [result EXCEPT
                !.NewPosts = IF exOk /\ ~exists /\ wrOk THEN @ + 1 ELSE @]
         /\ obs' = [obs EXCEPT
                !.consec = IF ~exOk THEN @ ELSE IF exists THEN @ + 1 ELSE 0,
                !.pageNew = IF store'.posts = store.posts THEN @ ELSE @ + 1,
                !.rejected = @ + Cnt(wrOk),
                !.failures = @ + Cnt(exOk) + Cnt(wrOk)]
    /\ UNCHANGED <<web, runs, schedVars, pureVars, auxVars>>

UntilRecord_UpdatesExisting ==
    /\ run.pc = "records"
    /\ Routine = "until_existing"
    /\ LET id == run.posts[run.i] IN
       \E exOk, wrOk \in MayFail, pts \in Shown(id) :
         LET exists == PostExists(store, id) IN
         /\ obs.failures + Cnt(exOk) + Cnt(wrOk) <= MaxFailures
         /\ ~wrOk => exOk /\ ~exists
         /\ run' =
              IF ~exOk THEN Advance(run)
              ELSE IF exists
              THEN IF run.duplicateCount + 1 >= DuplicateThreshold
                   THEN Return(run, "nil")
                   ELSE Advance([run EXCEPT !.duplicateCount = @ + 1])
              ELSE Advance([run EXCEPT
                               !.duplicateCount = 0,
                               !.newPosts = IF wrOk THEN @ + 1 ELSE @])
         /\ store' = IF exOk /\ wrOk
                     THEN InsertPost(store, id, pts) ELSE store
         /\ result' = [result EXCEPT
                !.NewPosts = IF exOk /\ ~exists /\ wrOk THEN @ + 1 ELSE @]
         /\ obs' = [obs EXCEPT
                !.consec = IF ~exOk THEN @ ELSE IF exists THEN @ + 1 ELSE 0,
                !.pageNew = IF store'.posts = store.posts THEN @ ELSE @ + 1,
                !.rejected = @ + Cnt(wrOk),
                !.failures = @ + Cnt(exOk) + Cnt(wrOk)]
    /\ UNCHANGED <<web, runs, schedVars, pureVars, auxVars>>

UntilRecord ==
    /\ run.pc = "records"
    /\ Routine = "until_existing"
    /\ LET id == run.posts[run.i] IN
       \E exOk, wrOk \in MayFail, pts \in Shown(id) :
         LET exists == PostExists(store, id) IN
         /\ obs.failures + Cnt(exOk) + Cnt(wrOk) <= MaxFailures
         /\ ~wrOk => exOk /\ ~exists
         /\ run' =
              IF ~exOk THEN Advance(run)
              ELSE IF exists
              THEN IF run.duplicateCount + 1 >= DuplicateThreshold
                   THEN Return(run, "nil")
                   ELSE Advance([run EXCEPT !.duplicateCount = @ + 1])
              ELSE Advance([run EXCEPT
                               !.duplicateCount = 0,
                               !.newPosts = IF wrOk THEN @ + 1 ELSE @])
         /\ store' = IF exOk /\ ~exists /\ wrOk
                     THEN InsertPost(store, id, pts) ELSE store
         /\ result' = [result EXCEPT
                !.NewPosts = IF exOk /\ ~exists /\ wrOk THEN @ + 1 ELSE @]
         /\ obs' = [obs EXCEPT
                !.consec = IF ~exOk THEN @ ELSE IF exists THEN @ + 1 ELSE 0,
                !.pageNew = IF store'.posts = store.posts THEN @ ELSE @ + 1,
                !.rejected = @ + Cnt(wrOk),
                !.failures = @ + Cnt(exOk) + Cnt(wrOk)]
    /\ UNCHANGED <<web, runs, schedVars, pureVars, auxVars>>

\* scrapeUntilExisting: after the records of a page.
UntilPageEnd ==
    /\ run.pc = "pageEnd"
    /\ Routine = "until_existing"
    /\ result' = [result EXCEPT !.PostsScraped = @ + run.newPosts,
                                !.PagesScraped = run.page]
    /\ run' = IF run.newPosts = 0 THEN Return(run, "nil")
              ELSE [run EXCEPT !.pc = "sleep"]
    /\ UNCHANGED <<store, web, obs, runs, schedVars, pureVars, auxVars>>

\* ScrapeWithStrategy after the switch: EndTime, Duration, the save of the
\* result (its error is dropped) and the return.
Finish_SavesOnlyCleanRuns ==
    /\ run.pc = "finish"
    /\ result' = [result EXCEPT !.ended = TRUE]
    /\ \E saveOk \in MayFail :
         IF run.err = "nil"
         THEN /\ store' = IF saveOk THEN CreateDetailedScrapingJob(store)
                          ELSE store
              /\ obs' = [obs EXCEPT !.persists = @ + 1, !.persisted = result',
                                    !.failures = @ + Cnt(saveOk)]
         ELSE UNCHANGED <<store, obs>>
    /\ run' = [run EXCEPT !.pc = "done"]
    /\ UNCHANGED <<web, runs, schedVars, pureVars, auxVars>>

Finish ==
    /\ run.pc = "finish"
    /\ result' = [result EXCEPT !.ended = TRUE]
    /\ \E saveOk \in MayFail :
         /\ store' = IF saveOk THEN CreateDetailedScrapingJob(store)
                     ELSE store
         /\ obs' = [obs EXCEPT !.persists = @ + 1, !.persisted = result',
                               !.failures = @ + Cnt(saveOk)]
    /\ run' = [run EXCEPT !.pc = "done"]
    /\ UNCHANGED <<web, runs, schedVars, pureVars, auxVars>>

\* The store a run can find: any posts, no history or job rows counted yet.
EngInit ==
    /\ scrapers = [n \in Names |-> NoJob]
    /\ jobs = <<>>
    /\ first = <<>>
    /\ loop = <<>>
    /\ mu = [writer |-> "none", readers |-> {}]
    /\ pc = [c \in Callers |-> Idle]
    /\ ret = NoRet
    /\ started = {}
    /\ store \in {[EmptyStore EXCEPT
                     !.posts = [id \in Ids |-> IF id <= k THEN 1 ELSE Absent]] :
                    k \in 0..MaxId}
    /\ web = ChangingWeb
    /\ run = NoRun
    /\ result = ZeroResult
    /\ obs = NoObs
    /\ runs = 0
    /\ arg = NoCall /\ val = NoCall
    /\ workers = NoWorkers /\ single = NewScheduler

EngNext ==
    \/ \E mode \in AnyMode, maxPages \in 1..MaxPages : Begin(mode, maxPages)
    \/ LatestFetch
    \/ savePosts
    \/ LatestEnd
    \/ LoopExit
    \/ Sleep
    \/ SinceFetch
    \/ SinceScan
    \/ SincePageEnd
    \/ SinceInsert
    \/ FullFetch
    \/ FullPageEnd
    \/ UntilFetch
    \/ UntilRecord
    \/ UntilPageEnd
    \/ Finish

EngSpec == EngInit /\ [][EngNext]_vars

\* Latest-only runs, one after the other, in a steady world of one page.
FixedInit ==
    /\ scrapers = [n \in Names |-> NoJob]
    /\ jobs = <<>>
    /\ first = <<>>
    /\ loop = <<>>
    /\ mu = [writer |-> "none", readers |-> {}]
    /\ pc = [c \in Callers |-> Idle]
    /\ ret = NoRet
    /\ started = {}
    /\ store \in {[EmptyStore EXCEPT !.posts = p] :
                    p \in [Ids -> {Absent} \cup Points]}
    /\ web \in {[steady |-> TRUE, flaky |-> FALSE, pages |-> <<page>>,
                   len |-> Len(page),
                   points |-> pts] :
                  page \in Pages, pts \in [Ids -> Points]}
    /\ run = NoRun
    /\ result = ZeroResult
    /\ obs = NoObs
    /\ runs = 0
    /\ arg = NoCall /\ val = NoCall
    /\ workers = NoWorkers /\ single = NewScheduler

FixedNext ==
    \/ Rerun
    \/ LatestFetch
    \/ savePosts
    \/ LatestEnd
    \/ Finish

FixedSpec == FixedInit /\ [][FixedNext]_vars

\* Until-existing runs alone, over pages of up to MaxLongPage records, so
\* that DuplicateThreshold existing records in a row fit on MaxPages pages.
UntilInit ==
    /\ scrapers = [n \in Names |-> NoJob]
    /\ jobs = <<>>
    /\ first = <<>>
    /\ loop = <<>>
    /\ mu = [writer |-> "none", readers |-> {}]
    /\ pc = [c \in Callers |-> Idle]
    /\ ret = NoRet
    /\ started = {}
    /\ store \in {[EmptyStore EXCEPT
                     !.posts = [id \in Ids |-> IF id <= k THEN 1 ELSE Absent]] :
                    k \in 0..MaxId}
    /\ web = [ChangingWeb EXCEPT !.len = MaxLongPage]
    /\ run = NoRun
    /\ result = ZeroResult
    /\ obs = NoObs
    /\ runs = 0
    /\ arg = NoCall /\ val = NoCall
    /\ workers = NoWorkers /\ single = NewScheduler

UntilNext ==
    \/ \E maxPages \in 1..MaxPages : Begin("until_existing", maxPages)
    \/ LoopExit
    \/ Sleep
    \/ UntilFetch
    \/ UntilRecord
    \/ UntilPageEnd
    \/ Finish

UntilSpec == UntilInit /\ [][UntilNext]_vars

(***************************************************************************)
(* Scraper.ScrapeOnce, on the same store                                   *)
(***************************************************************************)
CreateScrapingJob(st) ==
    [st EXCEPT !.jobs = @ + 1, !.entry = [NoEntry EXCEPT !.status = "running"]]
UpdateScrapingJob(st, status, postsScraped, ok) ==
    IF ok THEN [st EXCEPT !.entry = [status |-> status,
                                     posts_scraped |-> postsScraped,
                                     completed |-> @.completed + 1]]
    ELSE st
InsertPostHistory(st, ok) == [st EXCEPT !.history = IF ok THEN @ + 1 ELSE @]

\* ScrapeOnce up to fetchAndParse; run.mode "once" marks a ScrapeOnce run.
OnceBegin ==
    /\ runs = 0
    /\ run.pc = "idle"
    /\ \E jobOk \in MayFailFirst :
         /\ store' = IF jobOk THEN CreateScrapingJob(store) ELSE store
         /\ run' = IF jobOk
                   THEN [NoRun EXCEPT !.mode = "once", !.pc = "once.fetch",
                                      !.page = 1]
                   ELSE [NoRun EXCEPT !.mode = "once", !.pc = "done",
                                      !.err = "job"]
         /\ obs' = [NoObs EXCEPT !.K = GetLatestHNPostID(store),
                                 !.failures = Cnt(jobOk)]
    /\ result' = ZeroResult
    /\ runs' = runs + 1
    /\ UNCHANGED <<web, schedVars, pureVars, auxVars>>

\* fetchAndParse, and the error return after UpdateScrapingJob "failed"
\* (whose own error is dropped).
OnceFetch ==
    /\ run.pc = "once.fetch"
    /\ \/ /\ FetchMayFail
          /\ run' = [run EXCEPT !.pc = "done", !.err = "fetch"]
          /\ \E upOk \in MayFail :
                /\ store' = UpdateScrapingJob(store, "failed", 0, upOk)
                /\ obs' = [obs EXCEPT !.fetchErrs = @ + 1, !.delayed = FALSE,
                                      !.failures = @ + Cnt(upOk)]
       \/ \E content \in Served(1) :
            /\ run' = [run EXCEPT
                   !.posts = content, !.i = 1, !.saved = 0,
                   !.pc = IF content = <<>> THEN "once.end"
                          ELSE "once.records"]
            /\ obs' = Observe(content)
            /\ UNCHANGED store
    /\ UNCHANGED <<web, result, runs, schedVars, pureVars, auxVars>>

\* One iteration of the loop over the records: InsertPost, saved++ and
\* InsertPostHistory (post.ID is set by a successful InsertPost).
OnceInsert ==
    /\ run.pc = "once.records"
    /\ LET id == run.posts[run.i] IN
       \E wrOk, hOk \in MayFail, pts \in Shown(id) :
         /\ obs.failures + Cnt(wrOk) + Cnt(hOk) <= MaxFailures
         /\ ~hOk => wrOk
         /\ store' = IF wrOk
                     THEN InsertPostHistory(InsertPost(store, id, pts), hOk)
                     ELSE store
         /\ run' = [run EXCEPT
                !.saved = IF wrOk THEN @ + 1 ELSE @,
                !.i = IF run.i = Len(run.posts) THEN 0 ELSE @ + 1,
                !.posts = IF run.i = Len(run.posts) THEN <<>> ELSE @,
                !.pc = IF run.i = Len(run.posts) THEN "once.end" ELSE @]
         /\ obs' = [obs EXCEPT
                !.upserts = @ + 1 - Cnt(wrOk),
                !.rejected = @ + Cnt(wrOk),
                !.failures = @ + Cnt(wrOk) + Cnt(hOk)]
    /\ UNCHANGED <<web, result, runs, schedVars, pureVars, auxVars>>

\* UpdateScrapingJob(jobID, "completed", saved, "") (its error is dropped)
\* and return saved, nil.
OnceEnd ==
    /\ run.pc = "once.end"
    /\ run' = [run EXCEPT !.pc = "done"]
    /\ \E upOk \in MayFail :
          /\ store' = UpdateScrapingJob(store, "completed", run.saved, upOk)
          /\ obs' = [obs EXCEPT !.failures = @ + Cnt(upOk)]
    /\ UNCHANGED <<web, result, runs, schedVars, pureVars, auxVars>>

ScrapeOnce == OnceBegin \/ OnceFetch \/ OnceInsert \/ OnceEnd

\* One run of either scraper: ScrapeWithStrategy or ScrapeOnce.
RunNext == EngNext \/ ScrapeOnce

RunSpec == EngInit /\ [][RunNext]_vars

\* The goroutine that runs ScrapeWithStrategy takes its next step whenever
\* it has one: every fetch and every store operation returns.
EngFair == EngSpec /\ WF_vars(EngNext)

(***************************************************************************)
(* Part 3: functions of the scraper and of the parser, applied to an       *)
(* argument drawn from a bounded set.                                      *)
(***************************************************************************)

\* No scheduler call was made and no run has begun.
Quiet ==
    /\ scrapers = [n \in Names |-> NoJob]
    /\ jobs = <<>>
    /\ first = <<>>
    /\ loop = <<>>
    /\ mu = [writer |-> "none", readers |-> {}]
    /\ pc = [c \in Callers |-> Idle]
    /\ ret = NoRet
    /\ started = {}
    /\ store = EmptyStore
    /\ web = ChangingWeb
    /\ run = NoRun
    /\ result = ZeroResult
    /\ obs = NoObs
    /\ runs = 0
    /\ workers = NoWorkers /\ single = NewScheduler

\* The function is applied to arg: val receives what it returns.
Apply(v) ==
    /\ val = NoCall
    /\ val' = <<v>>
    /\ UNCHANGED <<arg, store, web, run, result, obs, runs, schedVars, auxVars>>

Called == val # NoCall
Value == val[1]

\* URLs are sequences of pieces; strings.Contains(url, host) finds the host
\* piece, fmt.Sprintf appends the pieces of its format.
HNHost == "news.ycombinator.com"
UrlPieces == {"https://", "http://", HNHost, "example.org", "/", "newest"}
Urls == UNION {[1..k -> UrlPieces] : k \in 1..MaxUrlLen}
Contains(url, piece) == \E k \in 1..Len(url) : url[k] = piece

buildPageURL(URL, page) ==
    IF Contains(URL, HNHost)
    THEN IF page = 1 THEN <<"https://", HNHost, "/">>
         ELSE <<"https://", HNHost, "/", "?p=", page>>
    ELSE IF page = 1 THEN URL
         ELSE URL \o <<"?page=", page>>

UrlInit ==
    /\ Quiet
    /\ arg \in {[URL |-> u, page |-> n] : u \in Urls, n \in 1..MaxPages}
    /\ val = NoCall

UrlNext == Apply(buildPageURL(arg.URL, arg.page))

UrlSpec == UrlInit /\ [][UrlNext]_vars

(***************************************************************************)
(* Parser.ParseDocument                                                    *)
(***************************************************************************)

\* strconv.Atoi on a text given as its characters.
Digits == {"0", "1", "2", "3"}
DigitValue(c) ==
    CASE c = "0" -> 0 [] c = "1" -> 1 [] c = "2" -> 2 [] c = "3" -> 3
Unsigned(t) == IF t # <<>> /\ t[1] \in {"-", "+"} THEN Tail(t) ELSE t
IsNumber(t) ==
    Unsigned(t) # <<>> /\ \A k \in 1..Len(Unsigned(t)) : Unsigned(t)[k] \in Digits

RECURSIVE Decimal(_)
Decimal(ds) ==
    IF ds = <<>> THEN 0
    ELSE 10 * Decimal(SubSeq(ds, 1, Len(ds) - 1)) + DigitValue(ds[Len(ds)])

Atoi(t) ==
    IF ~IsNumber(t) THEN [err |-> "syntax", n |-> 0]
    ELSE [err |-> "nil",
          n |-> IF t[1] = "-" THEN 0 - Decimal(Unsigned(t))
                ELSE Decimal(Unsigned(t))]

\* The tr.athing rows of a document: the id attribute of each (absent, or
\* its text) and whether a row follows it.
IdTexts ==
    {<<>>, <<"x">>, <<"0">>, <<"2">>, <<"-", "1">>, <<"1", "2">>, <<"1", "x">>}
IdAttrs ==
    {[exists |-> FALSE, text |-> <<>>]}
        \cup {[exists |-> TRUE, text |-> t] : t \in IdTexts}
Items == [id : IdAttrs, meta : BOOLEAN]
Documents == UNION {[1..k -> Items] : k \in 0..MaxItems}

\* parsePost(s) for the k-th row; item records which row the post is from.
parsePost_IgnoresMetaRow(s, k) ==
    IF ~s.id.exists THEN [err |-> "no ID found", post |-> <<>>]
    ELSE IF Atoi(s.id.text).err # "nil"
    THEN [err |-> "invalid ID", post |-> <<>>]
    ELSE [err |-> "nil",
          post |-> [HnID |-> Atoi(s.id.text).n, item |-> k]]

parsePost(s, k) ==
    IF ~s.id.exists THEN [err |-> "no ID found", post |-> <<>>]
    ELSE IF Atoi(s.id.text).err # "nil"
    THEN [err |-> "invalid ID", post |-> <<>>]
    ELSE IF ~s.meta THEN [err |-> "no metadata row found", post |-> <<>>]
    ELSE [err |-> "nil",
          post |-> [HnID |-> Atoi(s.id.text).n, item |-> k]]

\* The Each loop of ParseDocument over the first n rows.
RECURSIVE Each(_, _)
Each(doc, n) ==
    IF n = 0 THEN <<>>
    ELSE LET posts == Each(doc, n - 1)
             r == parsePost(doc[n], n)
         IN  IF r.err # "nil" THEN posts
             ELSE IF r.post.HnID > 0 THEN Append(posts, r.post)
             ELSE posts

ParseDocument(doc) == [posts |-> Each(doc, Len(doc)), err |-> "nil"]

DocInit ==
    /\ Quiet
    /\ arg \in Documents
    /\ val = NoCall

DocNext == Apply(ParseDocument(arg))

DocSpec == DocInit /\ [][DocNext]_vars

(***************************************************************************)
(* Parser.parseRelativeTime and the post time of Parser.parsePost          *)
(***************************************************************************)

\* A time.Time: the zero Time, or sec seconds after 2000-01-01T00:00:00Z
\* moved by mon calendar months. The calendar has years of 365 days and
\* twelve months of equal length.
SecondSecs == 1
MinuteSecs == 60
HourSecs == 3600
DaySecs == 86400
MonthSecs == 2628000
YearSecs == 31536000
ZeroTime == [zero |-> TRUE, sec |-> 0, mon |-> 0]
Instant(sec) == [zero |-> FALSE, sec |-> sec, mon |-> 0]

\* time.Local: the offset of wall-clock time from UTC is before up to the
\* instant at, and after from then on.
UTC == [at |-> 0, before |-> 0, after |-> 0]
Offset(sec, zone) == IF sec < zone.at THEN zone.before ELSE zone.after
Wall(sec, zone) == sec + Offset(sec, zone)

\* time.Date: the instant of a wall-clock time (the offset found at the
\* wall-clock value is tried first, then the one at the instant it gives).
Unwall(w, zone) ==
    LET o == Offset(w, zone) IN
    IF Offset(w - o, zone) = o THEN w - o ELSE w - Offset(w - o, zone)

Add(t, d) == [t EXCEPT !.sec = @ + d]
AddDate(t, years, months, days, zone) ==
    [t EXCEPT !.sec = Unwall(Wall(@, zone) + days * DaySecs, zone),
              !.mon = @ + 12 * years + months]
Year(t, zone) ==
    IF t.zero THEN 1
    ELSE 2000 + ((Wall(t.sec, zone) + t.mon * MonthSecs) \div YearSecs)

\* Words are sequences of pieces; strings.ToLower, strings.Contains.
Lower(p) == CASE p = "Hour" -> "hour" [] p = "Ago" -> "ago" [] OTHER -> p
ToLower(text) == [k \in DOMAIN text |-> [j \in DOMAIN text[k] |-> Lower(text[k][j])]]

\* strings.TrimSuffix(ageText, " ago") on the words of the text.
TrimSuffixAgo(text) ==
    IF Len(text) >= 2 /\ text[Len(text)] = <<"ago">>
    THEN SubSeq(text, 1, Len(text) - 1) ELSE text

parseRelativeTime(ageText, now, zone) ==
    LET text == TrimSuffixAgo(ToLower(ageText))
        parts == text
        counted == Len(parts) >= 2 /\ Atoi(parts[1]).err = "nil"
        article == Len(parts) >= 2 /\ ~counted /\ parts[1] \in {<<"a">>, <<"an">>}
        value == IF counted THEN Atoi(parts[1]).n ELSE IF article THEN 1 ELSE 0
        unit == IF counted \/ article THEN parts[2] ELSE <<>>
    IN  IF text = <<<<"just">>, <<"now">>>> THEN now
        ELSE IF text = <<<<"yester", "day">>>> THEN AddDate(now, 0, 0, -1, zone)
        ELSE IF Contains(unit, "second") THEN Add(now, (0 - value) * SecondSecs)
        ELSE IF Contains(unit, "minute") THEN Add(now, (0 - value) * MinuteSecs)
        ELSE IF Contains(unit, "hour") THEN Add(now, (0 - value) * HourSecs)
        ELSE IF Contains(unit, "day") THEN AddDate(now, 0, 0, 0 - value, zone)
        ELSE IF Contains(unit, "week")
        THEN AddDate(now, 0, 0, (0 - value) * 7, zone)
        ELSE IF Contains(unit, "month") THEN AddDate(now, 0, 0 - value, 0, zone)
        ELSE IF Contains(unit, "year") THEN AddDate(now, 0 - value, 0, 0, zone)
        ELSE now

\* The labels of an age element.
Counts == {<<"1">>, <<"3">>, <<"3", "0">>, <<"a">>, <<"an">>}
Units ==
    {<<"second", "s">>, <<"minute">>, <<"hour", "s">>, <<"Hour", "s">>,
     <<"day">>, <<"day", "s">>, <<"week", "s">>, <<"month", "s">>,
     <<"year", "s">>, <<"day", "light">>, <<"soon">>}
Labels ==
    {<<c, u, <<"ago">>>> : c \in Counts, u \in Units}
        \cup {<<c, u>> : c \in Counts, u \in Units}
        \cup {<<>>, <<<<"ago">>>>, <<<<"soon">>>>, <<<<"3">>>>,
              <<<<"just">>, <<"now">>>>, <<<<"just">>, <<"now">>, <<"ago">>>>,
              <<<<"yester", "day">>>>,
              <<<<"3">>, <<"hour", "s">>, <<"1">>, <<"minute">>, <<"ago">>>>,
              <<<<"3">>, <<"Hour", "s">>, <<"Ago">>>>}

\* The readings of the clock, and the zones of time.Local: UTC, and a zone
\* that set its clocks back one hour ten hours before the first reading.
Noon == 26 * YearSecs + 304 * DaySecs + 12 * HourSecs
Clock == {Noon, Noon + 40 * DaySecs}
SetBack == [at |-> Noon - 10 * HourSecs, before |-> 2 * HourSecs, after |-> HourSecs]
Zones == {UTC, SetBack}

LabelInit ==
    /\ Quiet
    /\ arg \in [ageText : Labels, now : {Instant(s) : s \in Clock}, zone : Zones]
    /\ val = NoCall

LabelNext == Apply(parseRelativeTime(arg.ageText, arg.now, arg.zone))

LabelSpec == LabelInit /\ [][LabelNext]_vars

\* The title attribute of the age element: empty, or its fields; a field
\* is a stamp in the layout 2006-01-02T15:04:05 (of the year given, year 1
\* standing for 0001-01-01T00:00:00) or something else.
Stamps == {[iso |-> TRUE, year |-> y] : y \in {1, 1999, 2000, 2026}}
Unix == [iso |-> FALSE, year |-> 0]
Titles ==
    {[empty |-> TRUE, fields |-> <<>>], [empty |-> FALSE, fields |-> <<>>],
     [empty |-> FALSE, fields |-> <<Unix>>]}
        \cup {[empty |-> FALSE, fields |-> <<s, Unix>>] : s \in Stamps}

\* time.Parse("2006-01-02T15:04:05", field)
Parse(field) ==
    IF ~field.iso THEN [err |-> "layout", t |-> ZeroTime]
    ELSE [err |-> "nil",
          t |-> IF field.year = 1 THEN ZeroTime
                ELSE Instant((field.year - 2000) * YearSecs)]

\* The subtext rows: whether there is an .age element, its title attribute
\* and its text.
AgeTexts ==
    {<<>>, <<<<"3">>, <<"hour", "s">>, <<"ago">>>>,
     <<<<"3", "0">>, <<"year", "s">>, <<"ago">>>>,
     <<<<"2", "0">>, <<"year", "s">>, <<"ago">>>>,
     <<<<"3", "0", "0">>, <<"month", "s">>, <<"ago">>>>}
Ages ==
    [present : BOOLEAN, hasTitle : BOOLEAN, title : Titles, text : AgeTexts]

\* post.PostTime = time.Now() when it is zero or before 2000.
Coerce_Never(t, now, zone) == t

Coerce(t, now, zone) == IF t.zero \/ Year(t, zone) < 2000 THEN now ELSE t

\* parsePost: the post time found in the row, before the final test.
Extracted(age, now, zone) ==
    IF ~age.present THEN ZeroTime
    ELSE IF age.hasTitle /\ ~age.title.empty
    THEN IF age.title.fields = <<>> THEN ZeroTime
         ELSE IF Parse(age.title.fields[1]).err = "nil"
         THEN Parse(age.title.fields[1]).t
         ELSE parseRelativeTime(age.text, now, zone)
    ELSE parseRelativeTime(age.text, now, zone)

\* The PostTime of the post parsePost returns, and the PostTime of the post
\* that scrapePage returns and ScrapeOnce inserts.
PostTime(age, now, zone) ==
    LET parsed == Coerce(Extracted(age, now, zone), now, zone) IN
    [extracted |-> Extracted(age, now, zone),
     parsed |-> parsed,
     stored |-> Coerce(parsed, now, zone)]

AgeInit ==
    /\ Quiet
    /\ arg \in [age : Ages, now : {Instant(s) : s \in Clock}, zone : Zones]
    /\ val = NoCall

AgeNext == Apply(PostTime(arg.age, arg.now, arg.zone))

AgeSpec == AgeInit /\ [][AgeNext]_vars


(***************************************************************************)
(* Claims about SmartScraper.ScrapeWithStrategy                            *)
(***************************************************************************)

\* ScrapeWithStrategy has returned: result and run.err are what it returned.
Returned == run.pc = "done"

\* C11: after a run in any of the four modes during which at least one
\* record was observed, the result's highestIDSeen is greater than or equal
\* to its lastKnownID.
C11_HighestAtLeastLastKnown ==
    (Returned /\ run.mode \in Modes /\ obs.seenAny)
        => result.HighestIDSeen >= result.LastKnownID

\* C12: at the end of a run in any of the four modes, highestIDSeen equals
\* the maximum identifier among all records fetched and parsed in the run.
C12_HighestIsMaxObserved ==
    (Returned /\ run.mode \in Modes) => result.HighestIDSeen = obs.seenMax

\* A since-last run between its begin and its return.
InSinceLast == Routine = "since_last" /\ run.pc \notin {"idle", "done"}

\* The page loop of the run has fetched and parsed a page in this step.
PageFetched == obs'.fetched = obs.fetched + 1

\* The loop over the collected records runs in this step. obs.pending holds
\* the records fetched so far that precede the first record <= K.
InsertsPending == InSinceLast /\ obs.pending # <<>> /\ obs'.pending = <<>>

\* Since-last scanning goes no further than the first record <= K: a page
\* is fetched only while no such record was on an earlier page, a record is
\* examined only when every earlier record of its page is > K, the store
\* changes only for records that precede the first record <= K, and none of
\* those is left out at the return.
SinceLastScanStops ==
    InSinceLast =>
        /\ PageFetched => ~obs.knownSeen
        /\ (run.pc = "records" /\ run' # run) =>
               \A k \in 1..(run.i - 1) : run.posts[k] > result.LastKnownID
        /\ \A id \in Ids : store'.posts[id] # store.posts[id] =>
               id > result.LastKnownID /\ id \in Range(obs.pending)
        /\ ~InsertsPending => result'.NewPosts = result.NewPosts
        /\ run'.pc = "done" => obs.pending = <<>>

\* C13 (as stated): in since-last mode scanning stops at the first record
\* with identifier <= K, exactly the records preceding it are inserted and
\* counted in newPosts, and no record with identifier <= K is written.
C13_ExactlyPrecedingInserted ==
    /\ [][SinceLastScanStops]_vars
    /\ [][InsertsPending =>
             /\ result'.NewPosts = Len(obs.pending)
             /\ \A id \in Range(obs.pending) :
                    store'.posts[id] = web.points[id]]_vars

\* C13 (amended): scanning stops at the first record with identifier <= K;
\* each record preceding it is passed to InsertPost once, the ones the store
\* accepts are counted in newPosts and the others are skipped; no record
\* with identifier <= K is written.
C13_PrecedingInsertedUnlessRejected ==
    /\ [][SinceLastScanStops]_vars
    /\ [][InsertsPending =>
             LET rejected == obs'.rejected - obs.rejected IN
             /\ result'.NewPosts + rejected = Len(obs.pending)
             /\ result'.PostsScraped = result'.NewPosts
             /\ rejected = 0 => \A id \in Range(obs.pending) :
                                   store'.posts[id] = web.points[id]]_vars

\* A since-last run met a known record after two new ones and inserted both.
C13_Witness ==
    /\ Returned /\ run.mode = "since_last"
    /\ result.LastKnownID >= 1
    /\ obs.knownSeen
    /\ result.NewPosts = 2

\* An until-existing run has seen DuplicateThreshold existing records in a
\* row: obs.consec counts the records the existence check reported as stored
\* since the last one it reported as new, across pages.
ThresholdReached ==
    Routine = "until_existing" /\ obs.consec >= DuplicateThreshold

\* C14: in until-existing mode, as soon as 5 consecutive already-existing
\* records have been seen (counted across page boundaries, reset by a record
\* that is not in the store) the run terminates: no further record is
\* reconciled and no further page is fetched.
C14_StopsAtFifthDuplicate ==
    /\ [](ThresholdReached => run.pc \in {"finish", "done"})
    /\ [][ThresholdReached =>
             /\ ~PageFetched
             /\ run.pc # "records"
             /\ store'.posts = store.posts
             /\ result'.NewPosts = result.NewPosts
             /\ obs'.consec = obs.consec]_vars

\* An until-existing run ended on the fifth existing record in a row, on its
\* second page.
C14_Witness ==
    /\ Returned /\ run.mode = "until_existing"
    /\ obs.consec = DuplicateThreshold
    /\ result.PagesScraped = 1
    /\ result.NewPosts >= 1

\* C15: in full-archive mode a fetched page that yields 0 records stops the
\* run, and pagesScraped equals the index of the last non-empty page
\* processed (0 when page 1 is empty).
C15_FullStopsAtEmptyPage ==
    /\ [][(Routine = "full" /\ PageFetched /\ obs'.emptyRun > 0)
             => run'.pc = "finish" /\ UNCHANGED <<store, result>>]_vars
    /\ [](Returned /\ run.mode = "full"
             => result.PagesScraped = obs.lastFull)

\* A full-archive run that could fetch two pages ended on an empty page 1.
C15_Witness ==
    /\ Returned /\ run.mode = "full"
    /\ run.maxPages >= 2
    /\ obs.fetched = 1 /\ obs.emptyRun = 1
    /\ result.PagesScraped = 0

\* The identifiers the store holds.
StoredIds == {id \in Ids : PostExists(store, id)}

\* savePosts reconciles the record run.posts[run.i] in this step.
Reconciles == run.pc = "records" /\ run' # run

\* The record being reconciled is stored with another score than the page's.
ScoreDiffers ==
    LET id == run.posts[run.i] IN
    PostExists(store, id) /\ store.posts[id] # web.points[id]

\* C16: re-running latest-only mode against an unchanged page is idempotent:
\* when the store operations succeed, the second run reports newPosts == 0,
\* leaves the store's set of identifiers unchanged, and counts in
\* updatedPosts only the records whose score differs from the stored value.
C16_RerunIdempotent ==
    /\ [](Returned /\ runs >= 2 => result.NewPosts = 0)
    /\ [][runs >= 2 => StoredIds' = StoredIds]_vars
    /\ [][(runs >= 2 /\ Reconciles) =>
             result'.UpdatedPosts =
                 result.UpdatedPosts + (IF ScoreDiffers THEN 1 ELSE 0)]_vars

\* The fetch or the parse of a page has failed in this step.
PageFailed == obs'.fetchErrs = obs.fetchErrs + 1

\* C17: in every mode, a page-level fetch or parse failure is appended to
\* the result's error list and ends the mode's page loop, and the counters
\* and store writes made for earlier pages are kept.
C17_PageFailureRecorded ==
    [][PageFailed =>
          /\ Len(result'.Errors) = Len(result.Errors) + 1
          /\ run'.pc \in {"finish", "insert"}
          /\ store' = store
          /\ [result' EXCEPT !.Errors = <<>>] = [result EXCEPT !.Errors = <<>>]
      ]_vars

\* C18: every ScrapeWithStrategy invocation, in every mode (an unknown mode
\* included) and whether or not the mode's loop failed, returns a result and
\* has persisted that result exactly once, after endTime and duration were
\* set; a failure of the persistence is not returned and does not change the
\* returned result.
C18_ResultPersistedOnce ==
    /\ [](run.pc \notin {"idle", "done"} =>
             obs.persists = 0 /\ ENABLED EngNext)
    /\ [](Returned =>
             /\ result.Mode = run.mode
             /\ result.ended
             /\ obs.persists = 1
             /\ obs.persisted = result)
    /\ [][(run.pc = "finish" /\ run'.pc = "done") =>
             /\ run'.err = run.err
             /\ result' = [result EXCEPT !.ended = TRUE]]_vars

\* A run in an unknown mode whose fetch failed has returned that error and
\* its result, after a save of the result that failed.
C18_Witness ==
    /\ Returned /\ run.mode = "other"
    /\ run.err = "fetch"
    /\ obs.persists = 1
    /\ obs.failures = 1 /\ store.jobs = 0

\* savePosts reconciles a record in this step and no store operation fails.
SavesRecord ==
    /\ Routine \in {"latest", "full"}
    /\ Reconciles
    /\ obs'.failures = obs.failures

\* C19: in the insert-or-update modes each reconciled record whose
\* identifier exists in the store is updated with one history snapshot
\* appended, and each record whose identifier does not exist is inserted
\* together with an initial history snapshot.
C19_EveryRecordGetsSnapshot ==
    [][SavesRecord =>
          LET id == run.posts[run.i] IN
          /\ PostExists(store', id)
          /\ store'.posts[id] = web.points[id]
          /\ store'.history = store.history + 1
          /\ \A o \in Ids \ {id} : store'.posts[o] = store.posts[o]]_vars


\* A step of an until-existing run.
InUntilExisting == Routine = "until_existing"

\* C20: in until-existing mode the page loop stops after the second of two
\* consecutive pages that yield zero records, and after any non-empty page
\* on which zero records were newly inserted; a single empty page followed
\* by a non-empty page with at least one new insertion does not stop it.
C20_UntilExistingStops ==
    /\ [][(InUntilExisting /\ PageFetched /\ obs'.emptyRun >= 2)
             => run'.pc = "finish"]_vars
    /\ [][(InUntilExisting /\ PageFetched /\ obs'.emptyRun = 1)
             => run'.pc = "loop" /\ run'.page = run.page + 1]_vars
    /\ [][(InUntilExisting /\ run.pc = "pageEnd" /\ run' # run)
             => run'.pc = IF obs.pageNew = 0 THEN "finish" ELSE "sleep"]_vars
    /\ [](InUntilExisting /\ run.pc \in {"sleep", "loop"}
             => ENABLED EngNext)

\* An until-existing run goes on after an empty page 1 and a page 2 with a
\* new insertion.
C20_Witness ==
    /\ InUntilExisting /\ run.pc = "sleep"
    /\ obs.fetched = 2 /\ obs.lastFull = 2 /\ obs.emptyRun = 0
    /\ obs.pageNew >= 1

(***************************************************************************)
(* Claims C21..C30                                                         *)
(***************************************************************************)

\* scrapePage (or fetchAndParse) is called in this step, and the number of
\* such calls the run has made.
Attempts == obs.fetched + obs.fetchErrs
FetchAttempt == obs'.fetched + obs'.fetchErrs = Attempts + 1

\* C21: within one run the fetched pages are 1, 2, ... in ascending order
\* without gap or repeat and never beyond maxPages (page 1 alone in
\* latest-only mode), the records of a page are reconciled in document
\* order, and every run returns when each of its fetches returns.
C21_PagesInOrder ==
    /\ [][FetchAttempt =>
             /\ run.page = Attempts + 1
             /\ run.page <= run.maxPages
             /\ Routine = "latest" => run.page = 1]_vars
    /\ [](Returned /\ Routine = "latest" => Attempts = 1)
    /\ [][(run.pc # "records" /\ run'.pc = "records") => run'.i = 1]_vars
    /\ [][(run.pc = "records" /\ run'.pc = "records" /\ run' # run) =>
             run'.i = run.i + 1 /\ run'.posts = run.posts]_vars
    /\ (run.pc # "idle") ~> Returned

\* A run fetched two pages, the second not empty, and inserted two records
\* before it returned.
C21_Witness ==
    /\ Returned
    /\ Attempts = 2 /\ obs.lastFull = 2 /\ result.NewPosts = 2
    /\ result.PagesScraped = 2

\* C22: in since-last, until-existing and full-archive modes no two
\* consecutive page fetches of one run happen without the inter-page delay
\* between them.
C22_DelayBetweenFetches ==
    [][(FetchAttempt /\ Attempts >= 1 /\ Routine # "latest")
          => obs.delayed]_vars

\* The store rejects the insert or update of a record in this step.
Rejects == obs'.rejected > obs.rejected

C24_UntilExistingInsertsOnly ==
    /\ [][InUntilExisting =>
             /\ \A id \in Ids : PostExists(store, id) =>
                                  store'.posts[id] = store.posts[id]
             /\ store'.history = store.history]_vars
    /\ [](InUntilExisting => result.UpdatedPosts = 0)
    /\ [][(/\ InUntilExisting /\ Reconciles
           /\ PostExists(store, run.posts[run.i])
           /\ obs'.failures = obs.failures) =>
             /\ result' = result
             /\ IF run.duplicateCount + 1 >= DuplicateThreshold
                THEN run'.pc = "finish"
                ELSE run'.duplicateCount = run.duplicateCount + 1]_vars

\* An until-existing run inserted a new record, met a stored one, and
\* returned.
C24_Witness ==
    /\ Returned /\ run.mode = "until_existing"
    /\ obs.consec >= 1
    /\ result.NewPosts >= 1

\* C25: page 1 uses the source's configured URL as it is and page n > 1 a
\* query-parameter URL carrying n: for every configured URL,
\* buildPageURL(1) equals that URL.
C25_PageOneIsConfiguredURL ==
    Called =>
        IF arg.page = 1 THEN Value = arg.URL
        ELSE /\ Value[Len(Value)] = arg.page
             /\ Value[Len(Value) - 1] \in {"?p=", "?page="}

\* The posts are the rows of the document in keep, in document order, each
\* with the number its id attribute denotes.
PostsAre(posts, doc, keep) ==
    /\ Len(posts) = Cardinality(keep)
    /\ \A j \in 1..Len(posts) :
         /\ posts[j].item \in keep
         /\ posts[j].HnID = Atoi(doc[posts[j].item].id.text).n
         /\ j > 1 => posts[j - 1].item < posts[j].item

\* The row has a numeric id attribute and a following metadata row.
WellFormed(it) == it.id.exists /\ IsNumber(it.id.text) /\ it.meta

UnitSecs(word) ==
    CASE word \in {<<"second">>, <<"second", "s">>} -> SecondSecs
      [] word \in {<<"minute">>, <<"minute", "s">>} -> MinuteSecs
      [] word \in {<<"hour">>, <<"hour", "s">>} -> HourSecs
      [] word \in {<<"day">>, <<"day", "s">>} -> DaySecs
      [] word \in {<<"week">>, <<"week", "s">>} -> 7 * DaySecs
      [] OTHER -> 0
UnitMonths(word) ==
    CASE word \in {<<"month">>, <<"month", "s">>} -> 1
      [] word \in {<<"year">>, <<"year", "s">>} -> 12
      [] OTHER -> 0

\* What the label grammar resolves a label to, at the instant now.
Resolved(label, now) ==
    LET text == TrimSuffixAgo(ToLower(label))
        n == IF text[1] \in {<<"a">>, <<"an">>} THEN 1 ELSE Atoi(text[1]).n
    IN  IF text = <<<<"just">>, <<"now">>>> THEN now
        ELSE IF text = <<<<"yester", "day">>>> THEN Add(now, 0 - DaySecs)
        ELSE IF /\ Len(text) = 2
                /\ text[1] \in {<<"a">>, <<"an">>} \/ IsNumber(text[1])
                /\ UnitSecs(text[2]) + UnitMonths(text[2]) > 0
        THEN [now EXCEPT !.sec = @ - n * UnitSecs(text[2]),
                         !.mon = @ - n * UnitMonths(text[2])]
        ELSE now

\* C28: after stripping a trailing "ago", "just now" resolves to now,
\* "yesterday" to now minus 1 day, "<n> <unit>" ("a"/"an" counting as 1) to
\* now minus n seconds, minutes, hours, days, n*7 days for weeks, n calendar
\* months or years, and any other label to now ("a day ago" is now - 24h).
C28_RelativeTimeResolved ==
    Called => Value = Resolved(arg.ageText, arg.now)

\* C27: every record the extractor produces, and every record ScrapeOnce
\* or scrapePage passes to the store, has a publishedAt of a year >= 2000:
\* a zero, unparseable or pre-2000 time is replaced by the current time.
C27_PublishedAtNotBefore2000 ==
    Called =>
        /\ Year(Value.parsed, arg.zone) >= 2000
        /\ Year(Value.stored, arg.zone) >= 2000
        /\ (Value.extracted.zero \/ Year(Value.extracted, arg.zone) < 2000)
              => Value.parsed = arg.now /\ Value.stored = arg.now
        /\ ~(Value.extracted.zero \/ Year(Value.extracted, arg.zone) < 2000)
              => Value.parsed = Value.extracted /\ Value.stored = Value.extracted

\* The label "30 years ago" was resolved to a time before 2000 and the post
\* got the current time.
C27_Witness ==
    /\ Called
    /\ ~Value.extracted.zero
    /\ Year(Value.extracted, arg.zone) < 2000
    /\ Value.extracted.mon < 0
    /\ Value.stored = arg.now


-----------------------------------------------------------------------------
(* The registry called from several threads at once: the public methods    *)
(* that close a stop channel, and the loops that receive from it.          *)

Threads == {"c1", "c2"}

ConcInit ==
    /\ scrapers = [n \in Names |-> NoJob]
    /\ jobs = <<>>
    /\ first = <<>>
    /\ loop = <<>>
    /\ mu = [writer |-> "none", readers |-> {}]
    /\ pc = [c \in Threads |-> Idle]
    /\ ret = NoRet
    /\ started = {}
    /\ store = EmptyStore
    /\ web = ChangingWeb
    /\ run = NoRun
    /\ result = ZeroResult
    /\ obs = NoObs
    /\ runs = 0
    /\ arg = NoCall /\ val = NoCall
    /\ workers = NoWorkers /\ single = NewScheduler

ConcNext ==
    \/ \E c \in Threads, op \in WriteOps : \E n \in Args(op) : Lock(c, op, n)
    \/ \E c \in Threads : StartScraper(c)
    \/ \E c \in Threads : StopScraper(c)
    \/ \E c \in Threads : StopAll(c)
    \/ \E j \in JobIds : LoopStop(j)

ConcSpec == ConcInit /\ [][ConcNext]_vars

\* close(job.StopChan) is executed on job j in this step.
Closes(j) == jobs'[j].StopChan # jobs[j].StopChan

\* C29: whatever StartScraper, StopScraper and StopAll calls two threads
\* issue, no job's stop channel is closed more than once: a close happens
\* only on a job that is active and whose channel is open, and deactivates it.
C29_StopChanClosedOnce ==
    /\ [](\A j \in JobIds : jobs[j].StopChan <= 1)
    /\ [][\A j \in JobIds :
             Closes(j) => /\ jobs[j].StopChan = 0
                          /\ jobs[j].IsActive
                          /\ ~jobs'[j].IsActive
                          /\ jobs'[j].StopChan = 1]_vars

\* A source was stopped, started again and stopped again, and a thread now
\* holds the lock for one more StopScraper of it: both of its jobs have a
\* closed channel.
C29_Witness ==
    \E j, k \in JobIds :
        /\ j < k
        /\ jobs[j].Scraper = jobs[k].Scraper
        /\ jobs[j].StopChan = 1 /\ jobs[k].StopChan = 1
        /\ \E c \in Threads : pc[c] = [op |-> "StopScraper",
                                       name |-> jobs[k].Scraper]

-----------------------------------------------------------------------------
(* The scheduler with goroutines that make progress: a loop blocked in its *)
(* select proceeds once a case stays ready, and every ScrapeOnce the loop  *)
(* called returns.                                                         *)

FairSpec ==
    /\ Spec
    /\ \A j \in 1..MaxJobs : WF_vars(j \in JobIds /\ LoopStop(j))
    /\ \A j \in 1..MaxJobs : WF_vars(j \in JobIds /\ LoopRunEnd(j))

\* C30: the tick loop of a stopped job eventually returns, for good, also
\* when its source was started again in the meantime; a loop returns only
\* after its own job was stopped, and a stop signals only the job the
\* registry holds for the name at that time, never an older job of it.
C30_StoppedLoopTerminates ==
    /\ \A j \in 1..MaxJobs :
          (j \in JobIds /\ ~jobs[j].IsActive)
              ~> (j \in JobIds /\ loop[j] = "exited")
    /\ [][\A j \in JobIds :
             /\ loop[j] = "exited" => loop'[j] = "exited"
             /\ loop'[j] = "exited" => jobs[j].StopChan >= 1
             /\ Closes(j) => scrapers[jobs[j].Scraper] = j]_vars

\* A source was stopped while its loop was in a crawl run, started again
\* and stopped again: the loop of the new job has returned, the old loop is
\* still in its run.
C30_Witness ==
    \E j, k \in JobIds :
        /\ j < k
        /\ jobs[j].Scraper = jobs[k].Scraper
        /\ ~jobs[j].IsActive /\ ~jobs[k].IsActive
        /\ loop[j] = "running"
        /\ loop[k] = "exited"

(***************************************************************************)
(* Part 5: two runs that reconcile the same page at the same time          *)
(***************************************************************************)

Runners == {"a", "b"}
Reconcilers == {"savePosts", "scrapeUntilExisting"}

\* A run about to reconcile posts with the loop named how. counted lists
\* the identifiers for which the run incremented result.NewPosts.
Worker(posts, how) ==
    [how |-> how, posts |-> posts, i |-> 1, pc |-> "exists",
     exists |-> FALSE, NewPosts |-> 0, UpdatedPosts |-> 0,
     duplicateCount |-> 0, counted |-> <<>>]

\* The stores the runs can find: empty, or holding one record.
Stores == {EmptyStore} \cup {InsertPost(EmptyStore, id, 1) : id \in Ids}

RaceInit ==
    /\ scrapers = [n \in Names |-> NoJob]
    /\ jobs = <<>>
    /\ first = <<>>
    /\ loop = <<>>
    /\ mu = [writer |-> "none", readers |-> {}]
    /\ pc = [c \in Callers |-> Idle]
    /\ ret = NoRet
    /\ started = {}
    /\ store \in Stores
    /\ web = ChangingWeb
    /\ run = NoRun
    /\ result = ZeroResult
    /\ obs = NoObs
    /\ runs = 0
    /\ arg = NoCall /\ val = NoCall
    /\ single = NewScheduler
    /\ \E posts \in Pages \ {<<>>}, how \in [Runners -> Reconcilers] :
          workers = [known |-> {id \in Ids : PostExists(store, id)},
                     run |-> [r \in Runners |-> Worker(posts, how[r])]]

\* exists, err := s.repo.PostExists(post.HnID), a store call of its own
ExistsCall(r) ==
    LET w == workers.run[r] IN
    /\ w.pc = "exists"
    /\ workers' = [workers EXCEPT
          !.run[r] = [w EXCEPT !.exists = PostExists(store, w.posts[w.i]),
                               !.pc = "write"]]
    /\ UNCHANGED <<store, web, run, result, obs, runs, schedVars, pureVars,
                   single>>

\* The next record of the page, or the end of the loop.
Proceed(w) ==
    IF w.i = Len(w.posts) THEN [w EXCEPT !.pc = "done"]
    ELSE [w EXCEPT !.i = @ + 1, !.pc = "exists"]

\* The branch on exists: UpdatePost or InsertPost in savePosts, the
\* duplicate count or InsertPost in scrapeUntilExisting.
WriteCall(r) ==
    LET w == workers.run[r]
        id == w.posts[w.i]
    IN
    /\ w.pc = "write"
    /\ \E pts \in Shown(id) :
         IF w.exists
         THEN IF w.how = "savePosts"
              THEN /\ store' = UpdatePost(store, id, pts, TRUE)
                   /\ workers' = [workers EXCEPT !.run[r] =
                          Proceed([w EXCEPT !.UpdatedPosts = @ + 1])]
              ELSE /\ store' = store
                   /\ workers' = [workers EXCEPT !.run[r] =
                          IF w.duplicateCount + 1 >= DuplicateThreshold
                          THEN [w EXCEPT !.duplicateCount = @ + 1,
                                         !.pc = "done"]
                          ELSE Proceed([w EXCEPT !.duplicateCount = @ + 1])]
         ELSE /\ store' = InsertPost(store, id, pts)
              /\ workers' = [workers EXCEPT !.run[r] =
                     Proceed([w EXCEPT !.NewPosts = @ + 1,
                                       !.duplicateCount = 0,
                                       !.counted = Append(@, id)])]
    /\ UNCHANGED <<web, run, result, obs, runs, schedVars, pureVars, single>>

RaceNext ==
    \/ \E r \in Runners : ExistsCall(r)
    \/ \E r \in Runners : WriteCall(r)

RaceSpec == RaceInit /\ [][RaceNext]_vars

\* How often run r counted id in NewPosts.
Counted(r, id) ==
    Cardinality({k \in 1..Len(workers.run[r].counted) :
                    workers.run[r].counted[k] = id})

\* Both runs have left their loops.
BothDone == \A r \in Runners : workers.run[r].pc = "done"

\* The identifiers of the page that the store did not hold at the start.
Unknown ==
    {workers.run["a"].posts[k] : k \in 1..Len(workers.run["a"].posts)}
        \ workers.known

\* C31: when two runs have reconciled the same page, every identifier that
\* was unknown before is in the store (once: the store keeps one record per
\* identifier) and exactly one of the two runs counted it in NewPosts.
C31_OneRecordOneCount ==
    BothDone =>
        \A id \in Unknown :
            /\ PostExists(store, id)
            /\ Counted("a", id) + Counted("b", id) = 1

\* What holds instead: the record is stored, and each run counted it at
\* most once.
C31_OneRecordCountedOnceOrTwice ==
    BothDone =>
        \A id \in Unknown :
            /\ PostExists(store, id)
            /\ Counted("a", id) + Counted("b", id) \in 1..2
            /\ \A r \in Runners : Counted(r, id) <= 1
                                  /\ workers.run[r].NewPosts
                                        = Len(workers.run[r].counted)

-----------------------------------------------------------------------------
(* Runs over a front page that is long enough for a record new to the      *)
(* store to be followed by DuplicateThreshold records the store has.       *)

FrontPages == [1..(DuplicateThreshold + 1) -> Ids]

FrontInit ==
    /\ scrapers = [n \in Names |-> NoJob]
    /\ jobs = <<>>
    /\ first = <<>>
    /\ loop = <<>>
    /\ mu = [writer |-> "none", readers |-> {}]
    /\ pc = [c \in Callers |-> Idle]
    /\ ret = NoRet
    /\ started = {}
    /\ store \in {[EmptyStore EXCEPT
                     !.posts = [id \in Ids |-> IF id <= k THEN 1 ELSE Absent]] :
                    k \in 0..MaxId}
    /\ web \in {[steady |-> TRUE, flaky |-> FALSE, pages |-> <<page>>,
                   len |-> Len(page),
                   points |-> [id \in Ids |-> 2]] : page \in FrontPages}
    /\ run = NoRun
    /\ result = ZeroResult
    /\ obs = NoObs
    /\ runs = 0
    /\ arg = NoCall /\ val = NoCall
    /\ workers = NoWorkers /\ single = NewScheduler

FrontSpec == FrontInit /\ [][EngNext]_vars

\* The page the claim names: in latest-only and since-last mode every
\* fetched page goes through savePosts or the scan, in full-archive and
\* until-existing mode every fetched page that has records.
LastReconciled ==
    IF Routine \in {"latest", "since_last"} THEN obs.fetched
    ELSE obs.lastFull

\* C32: when a run of any mode has returned, on any path, PostsScraped
\* equals NewPosts and PagesScraped is the index of the last page whose
\* records were reconciled.
C32_CountersAgree ==
    Returned =>
        /\ result.PostsScraped = result.NewPosts
        /\ result.PagesScraped = LastReconciled

\* What holds: the counters agree on every path but the return at the
\* duplicate threshold.
C32_CountersAgreeUnlessThreshold ==
    (Returned /\ ~ThresholdReached) =>
        /\ result.PostsScraped = result.NewPosts
        /\ result.PagesScraped = LastReconciled

-----------------------------------------------------------------------------
(* Since-last runs of one SmartScraper, one after the other, over a feed   *)
(* that does not change: store operations succeed, a fetch may fail.       *)

\* The records of pages 1..n of a feed, in the order they are listed.
RECURSIVE Listed(_, _)
Listed(feed, n) == IF n = 0 THEN <<>> ELSE Listed(feed, n - 1) \o feed[n]

\* A feed lists a post once: no identifier is on it twice.
Feeds ==
    {feed \in UNION {[1..n -> Pages] : n \in 1..MaxPages} :
        LET all == Listed(feed, Len(feed)) IN
        \A i, j \in 1..Len(all) : all[i] = all[j] => i = j}

SinceInit ==
    /\ scrapers = [n \in Names |-> NoJob]
    /\ jobs = <<>>
    /\ first = <<>>
    /\ loop = <<>>
    /\ mu = [writer |-> "none", readers |-> {}]
    /\ pc = [c \in Callers |-> Idle]
    /\ ret = NoRet
    /\ started = {}
    /\ store \in {[EmptyStore EXCEPT !.posts = p] :
                    p \in [Ids -> {Absent, 1}]}
    /\ web \in {[steady |-> TRUE, flaky |-> TRUE, pages |-> feed,
                   len |-> MaxPageLen, points |-> [id \in Ids |-> 2]] :
                  feed \in Feeds}
    /\ run = NoRun
    /\ result = ZeroResult
    /\ obs = NoObs
    /\ runs = 0
    /\ arg = NoCall /\ val = NoCall
    /\ workers = NoWorkers /\ single = NewScheduler

\* The since-last scraper, whose maxPages covers the feed, is run (again).
SinceRun == runs < MaxReruns /\ Start("since_last", Len(web.pages))

SinceNext ==
    \/ SinceRun
    \/ LoopExit
    \/ Sleep
    \/ SinceFetch
    \/ SinceScan
    \/ SincePageEnd
    \/ SinceInsert
    \/ Finish

SinceSpec == SinceInit /\ [][SinceNext]_vars

\* A run after the first is in progress or has returned.
Repeating == runs >= 2

Descending ==
    LET all == Listed(web.pages, Len(web.pages)) IN
    \A i \in 1..(Len(all) - 1) : all[i] > all[i + 1]

\* Every record of the feed above the identifier that was the highest in the
\* store before the first run is in the store.
AllAboveStored ==
    LET all == Listed(web.pages, Len(web.pages)) IN
    \A i \in 1..Len(all) : all[i] > obs.K0 => PostExists(store, all[i])

\* C34: over an unchanged feed in descending order, when a since-last run
\* after the first has returned without a failed fetch, every record of the
\* feed above the initial highest known identifier is in the store, also
\* when a fetch of an earlier run failed.
C34_NoRecordLost ==
    (Repeating /\ Returned /\ obs.fetchErrs = 0 /\ Descending)
        => AllAboveStored

\* What holds: no record is lost when no fetch failed, in the first run
\* already.
C34_NoRecordLostWithoutFailure ==
    (Returned /\ obs.fetchErrs = 0 /\ obs.priorErrs = 0 /\ Descending)
        => AllAboveStored

-----------------------------------------------------------------------------

\* The mode function returns in this step.
ModeReturns == run.pc # "finish" /\ run'.pc = "finish"

\* C35: a full-archive SmartScraper never has stopOnDuplicate set; after a
\* page with records none of which was newly inserted the run sleeps and goes
\* on to the next page, and its page loop ends only with a failed fetch, a
\* page without records, or the page index above maxPages.
C35_FullArchiveIgnoresDuplicates ==
    /\ []((Routine = "full" /\ run.pc # "idle") => ~run.stopOnDuplicate)
    /\ [][(Routine = "full" /\ run.pc = "pageEnd")
             => run'.pc = "sleep" /\ run'.page = run.page]_vars
    /\ [][(Routine = "full" /\ ModeReturns)
             => \/ obs'.fetchErrs = obs.fetchErrs + 1
                \/ PageFetched /\ obs'.emptyRun = obs.emptyRun + 1
                \/ run.pc = "loop" /\ run.page > run.maxPages]_vars

\* Page 1 had records, all of them stored already, no store operation
\* failed, and the run has fetched page 2.
C35_Witness ==
    /\ Routine = "full"
    /\ result.PagesScraped = 1
    /\ result.NewPosts = 0 /\ result.UpdatedPosts >= 1
    /\ obs.failures = 0
    /\ obs.fetched = 2

-----------------------------------------------------------------------------

\* ScrapeOnce has returned.
OnceReturned == run.mode = "once" /\ run.pc = "done"

\* C36: when ScrapeOnce has returned, the journal entry it created was
\* completed exactly once: as failed with count 0 after a failed fetch or
\* parse, otherwise as completed with the number of successful upserts; if
\* the entry could not be created nothing was fetched; and posts are stored
\* only in the record loop, which follows a successful fetch.
C36_JournalEntryCompletedOnce ==
    /\ [](OnceReturned =>
            /\ run.err = "job" => Attempts = 0 /\ store.entry = NoEntry
            /\ run.err = "fetch" =>
                  store.entry = [status |-> "failed", posts_scraped |-> 0,
                                 completed |-> 1]
            /\ run.err = "nil" =>
                  store.entry = [status |-> "completed",
                                 posts_scraped |-> obs.upserts,
                                 completed |-> 1])
    /\ [][(run'.mode = "once" /\ (store'.posts # store.posts
                                   \/ store'.history # store.history))
             => run.pc = "once.records" /\ obs.fetchErrs = 0]_vars

\* What holds: the entry is completed at most once, and as the claim says
\* whenever the update that completes it succeeds.
C36_JournalEntryCompletedAtMostOnce ==
    /\ [](OnceReturned =>
            /\ run.err = "job" => Attempts = 0 /\ store.entry = NoEntry
            /\ run.err = "fetch" =>
                  store.entry \in {[status |-> "failed", posts_scraped |-> 0,
                                    completed |-> 1],
                                   [NoEntry EXCEPT !.status = "running"]}
            /\ run.err = "nil" =>
                  store.entry \in {[status |-> "completed",
                                    posts_scraped |-> obs.upserts,
                                    completed |-> 1],
                                   [NoEntry EXCEPT !.status = "running"]})
    /\ [][(run'.mode = "once" /\ (store'.posts # store.posts
                                   \/ store'.history # store.history))
             => run.pc = "once.records" /\ obs.fetchErrs = 0]_vars

(***************************************************************************)
(* Part 6: Scheduler, the scheduler of one source                          *)
(***************************************************************************)

\* Everything but the Scheduler stays as it is.
Elsewhere ==
    UNCHANGED <<schedVars, store, web, run, result, obs, runs, pureVars,
                workers>>

\* The Start calls that have been made and have not returned.
StartsPending ==
    {u \in Users : single.pc[u] \in {"Start.lock", "Start"}}

\* A method is called: the caller waits in s.mu.Lock(). Start calls are
\* made while fewer than MaxStarts tick loops can exist.
Scheduler_Call(u, method) ==
    /\ single.pc[u] = "idle"
    /\ method = "Start"
          => Len(single.loop) + Cardinality(StartsPending) < MaxStarts
    /\ single' = [single EXCEPT !.pc[u] = IF method = "Start" THEN "Start.lock"
                                          ELSE IF method = "Stop" THEN "Stop.lock"
                                          ELSE "IsActive.lock",
                                !.ret = IF @ = "Stop" THEN "none" ELSE @]
    /\ Elsewhere

\* s.mu.Lock() returns.
Scheduler_Lock(u) ==
    /\ single.pc[u] \in {"Start.lock", "Stop.lock", "IsActive.lock"}
    /\ single.mu = "none"
    /\ single' = [single EXCEPT
          !.mu = u,
          !.pc[u] = IF @ = "Start.lock" THEN "Start"
                    ELSE IF @ = "Stop.lock" THEN "Stop" ELSE "IsActive"]
    /\ Elsewhere

\* Start: the early return, or a new ticker, isActive = true and the two
\* goroutines; then the deferred Unlock.
Scheduler_Start(u) ==
    /\ single.pc[u] = "Start"
    /\ single' =
         IF single.isActive
         THEN [single EXCEPT !.mu = "none", !.pc[u] = "idle", !.ret = "Start"]
         ELSE [single EXCEPT
                  !.ticker = [nil |-> FALSE, running |-> TRUE, C |-> 0],
                  !.isActive = TRUE,
                  !.first = Append(@, "spawned"),
                  !.loop = Append(@, "select"),
                  !.stopped = FALSE,
                  !.mu = "none", !.pc[u] = "idle", !.ret = "Start"]
    /\ Elsewhere

\* Stop that does not send on stopChan (line 73).
Scheduler_Stop_NoSend(u) ==
    /\ single.pc[u] = "Stop"
    /\ \E keep \in BOOLEAN :
         single' =
           IF ~single.isActive
           THEN [single EXCEPT !.mu = "none", !.pc[u] = "idle",
                               !.ret = "Stop"]
           ELSE [single EXCEPT
                    !.ticker.running = FALSE,
                    !.ticker.C = IF keep THEN @ ELSE 0,
                    !.pc[u] = "Stop.sent"]
    /\ Elsewhere

\* Stop up to the send: the early return, or s.ticker.Stop() and the send
\* on stopChan, in which the caller waits with s.mu held. A tick already
\* buffered in ticker.C stays receivable or not, depending on the Go release
\* the program is built with: keep is that choice.
Scheduler_Stop(u) ==
    /\ single.pc[u] = "Stop"
    /\ \E keep \in BOOLEAN :
         single' =
           IF ~single.isActive
           THEN [single EXCEPT !.mu = "none", !.pc[u] = "idle",
                               !.ret = "Stop"]
           ELSE [single EXCEPT
                    !.ticker.running = FALSE,
                    !.ticker.C = IF keep THEN @ ELSE 0,
                    !.pc[u] = "Stop.send"]
    /\ Elsewhere

\* select: case <-s.stopChan: return. The send of the waiting Stop and the
\* receive of the loop happen together.
Scheduler_LoopStop(k) ==
    /\ single.loop[k] = "select"
    /\ \E u \in Users :
         /\ single.pc[u] = "Stop.send"
         /\ single' = [single EXCEPT !.loop[k] = "exited",
                                     !.pc[u] = "Stop.sent"]
    /\ Elsewhere

\* Stop after the send: s.isActive = false and the deferred Unlock.
Scheduler_StopEnd(u) ==
    /\ single.pc[u] = "Stop.sent"
    /\ single' = [single EXCEPT !.isActive = FALSE, !.stopped = TRUE,
                                !.mu = "none", !.pc[u] = "idle",
                                !.ret = "Stop"]
    /\ Elsewhere

\* IsActive
Scheduler_IsActive(u) ==
    /\ single.pc[u] = "IsActive"
    /\ single' = [single EXCEPT !.mu = "none", !.pc[u] = "idle",
                                !.ret = IF single.isActive THEN "true"
                                        ELSE "false"]
    /\ Elsewhere

\* The runtime delivers a tick of s.ticker: ticker.C has room for one.
Scheduler_Tick ==
    /\ single.ticker.running
    /\ single' = [single EXCEPT !.ticker.C = 1]
    /\ Elsewhere

\* The goroutine of the first run: ScrapeOnce is entered, and returns.
Scheduler_FirstRun(k) ==
    /\ single.first[k] \in {"spawned", "running"}
    /\ single' = [single EXCEPT
          !.first[k] = IF @ = "spawned" THEN "running" ELSE "done"]
    /\ Elsewhere

\* select: case <-s.ticker.C: ScrapeOnce is entered
Scheduler_LoopTick(k) ==
    /\ single.loop[k] = "select"
    /\ single.ticker.C = 1
    /\ single' = [single EXCEPT !.ticker.C = 0, !.loop[k] = "running"]
    /\ Elsewhere

\* ScrapeOnce returns to the loop; its result is only logged.
Scheduler_LoopRunEnd(k) ==
    /\ single.loop[k] = "running"
    /\ single' = [single EXCEPT !.loop[k] = "select"]
    /\ Elsewhere

SingleInit == Quiet /\ arg = NoCall /\ val = NoCall

SingleNext ==
    \/ \E u \in Users, m \in {"Start", "Stop", "IsActive"} :
          Scheduler_Call(u, m)
    \/ \E u \in Users : Scheduler_Lock(u)
    \/ \E u \in Users : Scheduler_Start(u)
    \/ \E u \in Users : Scheduler_Stop(u)
    \/ \E k \in 1..Len(single.loop) : Scheduler_LoopStop(k)
    \/ \E u \in Users : Scheduler_StopEnd(u)
    \/ \E u \in Users : Scheduler_IsActive(u)
    \/ Scheduler_Tick
    \/ \E k \in 1..Len(single.first) : Scheduler_FirstRun(k)
    \/ \E k \in 1..Len(single.loop) : Scheduler_LoopTick(k)
    \/ \E k \in 1..Len(single.loop) : Scheduler_LoopRunEnd(k)

SingleSpec == SingleInit /\ [][SingleNext]_vars

\* sync.Mutex hands the lock to a caller that keeps waiting for it (its
\* starvation mode), a method that holds the lock runs on, a select with a
\* ready case proceeds, and every ScrapeOnce of the loop returns.
SingleFair ==
    /\ SingleSpec
    /\ \A u \in Users : SF_vars(Scheduler_Lock(u))
    /\ \A u \in Users : WF_vars(Scheduler_Stop(u) \/ Scheduler_StopEnd(u))
    /\ \A u \in Users : WF_vars(Scheduler_Start(u) \/ Scheduler_IsActive(u))
    /\ \A k \in 1..MaxStarts :
          WF_vars(k <= Len(single.loop) /\ Scheduler_LoopStop(k))
    /\ \A k \in 1..MaxStarts :
          WF_vars(k <= Len(single.loop) /\ Scheduler_LoopRunEnd(k))

\* A Stop call of u returns in this step.
StopReturns(u) ==
    single.pc[u] \in {"Stop", "Stop.sent"} /\ single'.pc[u] = "idle"

\* What a call can change of the Scheduler: ticker, flag and goroutines.
SchedulerState(s) == <<s.ticker, s.isActive, s.first, s.loop>>

\* A call of u returns in this step without having done anything: Start on
\* an active Scheduler, Stop on an inactive one.
NoOpReturns(u) ==
    /\ \/ single.pc[u] = "Start" /\ single.isActive
       \/ single.pc[u] = "Stop" /\ ~single.isActive
    /\ single'.pc[u] = "idle"

\* A crawl run of a tick loop begins in this step.
TickRunBegins ==
    \E k \in 1..Len(single.loop) :
        single.loop[k] = "select" /\ single'.loop[k] = "running"

\* C37: a Stop call of the Scheduler eventually returns (every crawl run of
\* the loop terminating); when it returns isActive is false and every tick
\* loop has received the stop signal and exited; no crawl run of a tick loop
\* begins between the return of a Stop and the next Start that starts the
\* Scheduler; Start on an active Scheduler and Stop on an inactive one leave
\* ticker, flag and goroutines as they were.
C37_StopReturnsAndSilences ==
    /\ \A u \in Users :
          (single.pc[u] = "Stop.lock") ~> (single.pc[u] = "idle")
    /\ [][\A u \in Users : StopReturns(u) =>
             /\ ~single'.isActive
             /\ \A k \in 1..Len(single'.loop) : single'.loop[k] = "exited"]_vars
    /\ [][~single.isActive => ~TickRunBegins]_vars
    /\ [][\A u \in Users : NoOpReturns(u) =>
             SchedulerState(single') = SchedulerState(single)]_vars

\* The Scheduler was started, stopped, started again and stopped again; the
\* second Stop has returned with a tick left in the ticker's channel, and
\* both tick loops have exited, the first after a crawl run of its own.
C37_Witness ==
    /\ single.stopped
    /\ single.ret = "Stop"
    /\ ~single.isActive
    /\ Len(single.loop) = MaxStarts
    /\ \A k \in 1..Len(single.loop) : single.loop[k] = "exited"
    /\ single.ticker.C = 1
    /\ \A u \in Users : single.pc[u] = "idle"

====
